---------------------------- MODULE Spec2Model ----------------------------
(***************************************************************************)
(* Model of the sheet extraction engine of shdocs (src/main.py) and of the *)
(* Excel variant of its parsers (src/database.py).                         *)
(*                                                                         *)
(* A text is a sequence of characters.  A character is a one-character     *)
(* string for ASCII and the romanised syllable for a Hangul character      *)
(* (strings of the module are ASCII only):                                 *)
(*   성함 <<"seong","ham">>      이름 <<"yi","reum">>                       *)
(*   연락처 <<"yeon","rak","cheo">>                                         *)
(*   확정일시 <<"hwak","jeong","il","si">>   예약일시 <<"ye","yak","il","si">>*)
(*   날짜 <<"nal","jja">>   시술 <<"si","sul">>   수술 <<"su","sul">>       *)
(*   개인정보 <<"gae","in","jeong","bo">>                                   *)
(*   뉴브의원 <<"nyu","beu","ui","won">>  셀나인청담 <<"sel","na","in",     *)
(*   "cheong","dam">>   홍길동 <<"hong","gil","dong">>  화 <<"hwa">>        *)
(* Python's None is the text None, which holds no character of a cell.     *)
(***************************************************************************)
EXTENDS Integers, Sequences, FiniteSets, TLC

VARIABLES
    pc,               \* position of the run: which step comes next
    date_text,         \* parser run: the text handed to parse_date_time
    parsed,           \* parser run: what main.py parse_date_time returned
    db_parsed,        \* parser run: what database.py parse_date_time returned
    fetched,          \* the table fetch_sheet_data returns (data)
    at_row,           \* row_idx, the row the loop or the resolver is at
    sheet,            \* refresh: the sheet's row of the sheets table
    mapping,          \* refresh: column_mappings
    sheet_hospital,   \* refresh: the result of extract_hospital_from_data
    events,           \* the events table of the database
    prev_events,      \* what the events table held when the refresh began
    runs,             \* refreshes completed
    near,             \* resolver run: the result of find_hospital_near_name
    filename,         \* import: the name of the Excel file
    workbook,         \* import: the sheets of the Excel file
    at_sheet,         \* import: the sheet the loop is at
    columns,          \* import: columns_mapping of the sheet
    at_idx,           \* import: idx, the row the loop is at
    appointments,     \* import: the list process_excel_file returns
    phone_text,       \* phone run: the text handed to extract_phone_number
    phone_main,       \* phone run: what main.py extract_phone_number returned
    phone_db,         \* phone run: what database.py extract_phone_number returned
    seen,             \* what the last get_all_events of another worker returned
    workers,          \* API: per worker process, its credentials and handler
    sheets,           \* API: the ids of the sheets table
    last_id           \* API: the last id the sheets table gave out

vars ==
    <<pc, date_text, parsed, db_parsed, fetched, at_row, sheet, mapping,
      sheet_hospital, events, prev_events, runs, near, filename, workbook,
      at_sheet, columns, at_idx, appointments, phone_text, phone_main,
      phone_db, seen, workers, sheets, last_id>>

----------------------------------------------------------------------------
(* Texts *)

None == <<"None">>

Digits == {"0", "1", "2", "3", "4", "5", "6", "7", "8", "9"}

DigitVal(c) ==
    CASE c = "0" -> 0 [] c = "1" -> 1 [] c = "2" -> 2 [] c = "3" -> 3
      [] c = "4" -> 4 [] c = "5" -> 5 [] c = "6" -> 6 [] c = "7" -> 7
      [] c = "8" -> 8 [] c = "9" -> 9

DigitChar(n) ==
    CASE n = 0 -> "0" [] n = 1 -> "1" [] n = 2 -> "2" [] n = 3 -> "3"
      [] n = 4 -> "4" [] n = 5 -> "5" [] n = 6 -> "6" [] n = 7 -> "7"
      [] n = 8 -> "8" [] n = 9 -> "9"

\* The Hangul syllables of the model ('가' <= c <= '힣').
Hangul ==
    {"seong", "ham", "yi", "reum", "sin", "cheong", "ja", "go", "gaek",
     "myeong", "hwan", "yeon", "rak", "cheo", "jeon", "hwa", "haen", "deu",
     "pon", "hyu", "dae", "hwak", "jeong", "il", "si", "ye", "yak", "su",
     "sul", "nal", "jja", "bu", "wi", "jin", "haeng", "hang", "mok", "gae",
     "in", "bo", "seu", "tel", "la", "em", "tu", "nyu", "beu", "je", "ne",
     "oh", "ek", "sel", "na", "byeong", "won", "ui", "pi", "gwa", "oe",
     "keul", "ri", "nik", "sen", "teo", "bi", "ang", "teu", "raen",
     "hwang", "geum", "ke", "beul", "rin", "jyu", "gel", "hyeong", "dam",
     "pil", "reo", "hong", "gil", "dong", "gim", "cheol", "yeong", "hui",
     "dang", "al", "eop", "neun"}

\* str.lower() on one character: the ASCII capitals the cells use.
LowerChar(c) ==
    CASE c = "A" -> "a" [] c = "B" -> "b" [] c = "D" -> "d" [] c = "F" -> "f"
      [] c = "M" -> "m" [] c = "N" -> "n" [] c = "S" -> "s" [] c = "T" -> "t"
      [] c = "W" -> "w"
      [] OTHER -> c

Lower(t) == [k \in 1..Len(t) |-> LowerChar(t[k])]

IsSpace(c) == c = " "
IsDigit(c) == c \in Digits

RECURSIVE LStrip(_)
LStrip(t) == IF t # <<>> /\ IsSpace(Head(t)) THEN LStrip(Tail(t)) ELSE t

RECURSIVE RStrip(_)
RStrip(t) ==
    IF t # <<>> /\ IsSpace(t[Len(t)]) THEN RStrip(SubSeq(t, 1, Len(t) - 1))
    ELSE t

\* str.strip()
Strip(t) == RStrip(LStrip(t))

\* pattern in text
Contains(t, p) ==
    \E k \in 1..(Len(t) - Len(p) + 1) : SubSeq(t, k, k + Len(p) - 1) = p

ContainsAny(t, ps) == \E p \in ps : Contains(t, p)

\* `if value`: neither None nor the empty text
Truthy(t) == t # None /\ t # <<>>

\* a or b, for texts
OrElse(a, b) == IF a # <<>> THEN a ELSE b

\* s[k], or a character nothing matches when k is past the end
At(s, k) == IF k >= 1 /\ k <= Len(s) THEN s[k] ELSE "EOT"

\* int() of a text of digits
RECURSIVE ToInt(_)
ToInt(t) ==
    IF t = <<>> THEN 0
    ELSE 10 * ToInt(SubSeq(t, 1, Len(t) - 1)) + DigitVal(t[Len(t)])

\* str.zfill(2) of a text of one or two digits
ZFill2(t) == IF Len(t) < 2 THEN <<"0">> \o t ELSE t

Fmt2(n) == <<DigitChar(n \div 10), DigitChar(n % 10)>>

Fmt4(n) ==
    <<DigitChar(n \div 1000), DigitChar((n \div 100) % 10),
      DigitChar((n \div 10) % 10), DigitChar(n % 10)>>

----------------------------------------------------------------------------
(* Calendar: what datetime accepts *)

IsLeap(y) == (y % 4 = 0 /\ y % 100 # 0) \/ y % 400 = 0

DaysInMonth(y, m) ==
    IF m = 2 THEN (IF IsLeap(y) THEN 29 ELSE 28)
    ELSE IF m \in {4, 6, 9, 11} THEN 30 ELSE 31

ValidDate(y, m, d) ==
    /\ y >= 1 /\ y <= 9999
    /\ m >= 1 /\ m <= 12
    /\ d >= 1 /\ d <= DaysInMonth(y, m)

\* datetime.strftime("%Y-%m-%d")
StrfDate(y, m, d) == Fmt4(y) \o <<"-">> \o Fmt2(m) \o <<"-">> \o Fmt2(d)


----------------------------------------------------------------------------
(* datetime.strptime, as main.py uses it (C locale) *)

\* Weekday abbreviations %a accepts, matched case-insensitively.
WeekdayAbbr ==
    {<<"m", "o", "n">>, <<"t", "u", "e">>, <<"w", "e", "d">>,
     <<"t", "h", "u">>, <<"f", "r", "i">>, <<"s", "a", "t">>,
     <<"s", "u", "n">>}

RECURSIVE SpaceRun(_, _)
SpaceRun(s, k) == IF IsSpace(At(s, k)) THEN 1 + SpaceRun(s, k + 1) ELSE 0

\* The number of characters one directive of a format takes at position k
\* of s; 0 when it does not match there.
DirLen(dir, s, k) ==
    LET a == At(s, k)
        b == At(s, k + 1)
    IN  CASE dir = "%y" -> IF IsDigit(a) /\ IsDigit(b) THEN 2 ELSE 0
          [] dir = "%Y" ->
                IF \A j \in 0..3 : IsDigit(At(s, k + j)) THEN 4 ELSE 0
          [] dir = "%m" ->
                IF \/ (a = "1" /\ b \in {"0", "1", "2"})
                   \/ (a = "0" /\ b \in Digits \ {"0"})
                THEN 2
                ELSE IF a \in Digits \ {"0"} THEN 1 ELSE 0
          [] dir = "%d" ->
                IF \/ (a = "3" /\ b \in {"0", "1"})
                   \/ (a \in {"1", "2"} /\ IsDigit(b))
                   \/ (a = "0" /\ b \in Digits \ {"0"})
                THEN 2
                ELSE IF a \in Digits \ {"0"} THEN 1
                ELSE IF a = " " /\ b \in Digits \ {"0"} THEN 2 ELSE 0
          [] dir = "%H" ->
                IF \/ (a = "2" /\ b \in {"0", "1", "2", "3"})
                   \/ (a \in {"0", "1"} /\ IsDigit(b))
                THEN 2
                ELSE IF IsDigit(a) THEN 1 ELSE 0
          [] dir = "%M" ->
                IF a \in {"0", "1", "2", "3", "4", "5"} /\ IsDigit(b) THEN 2
                ELSE IF IsDigit(a) THEN 1 ELSE 0
          [] dir = "%a" ->
                IF k + 2 <= Len(s) /\ Lower(SubSeq(s, k, k + 2)) \in WeekdayAbbr
                THEN 3 ELSE 0
          [] dir = " " -> SpaceRun(s, k)
          [] OTHER -> IF a = dir THEN 1 ELSE 0

NoFields ==
    [f \in {"%y", "%Y", "%m", "%d", "%H", "%M"} |-> <<>>]

\* The format's regular expression matched at the start of s; the whole of
\* s must be consumed ("unconverted data remains" otherwise).
RECURSIVE StrpMatch(_, _, _, _)
RECURSIVE StrpTake(_, _, _, _, _)
StrpMatch(fmt, s, k, got) ==
    IF fmt = <<>> THEN [ok |-> k = Len(s) + 1, got |-> got]
    ELSE StrpTake(fmt, s, k, got, DirLen(Head(fmt), s, k))

\* The first directive of fmt took n characters at position k
StrpTake(fmt, s, k, got, n) ==
    IF n = 0 THEN [ok |-> FALSE, got |-> got]
    ELSE StrpMatch(Tail(fmt), s, k + n,
                   IF Head(fmt) \in DOMAIN got
                   THEN [got EXCEPT ![Head(fmt)] = SubSeq(s, k, k + n - 1)]
                   ELSE got)

\* %y: 00..68 are 2000..2068 and 69..99 are 1969..1999.
StrptimeYear2(yy) == IF yy <= 68 THEN 2000 + yy ELSE 1900 + yy

\* The datetime of the matched fields; ok is FALSE where Python raises
\* ValueError (no match, or no such day in the calendar).
StrpDate(matched, year, month, day, hour, minute) ==
    IF matched /\ ValidDate(year, month, day)
    THEN [ok |-> TRUE, year |-> year, month |-> month, day |-> day,
          hour |-> hour, minute |-> minute]
    ELSE [ok |-> FALSE, year |-> 0, month |-> 0, day |-> 0,
          hour |-> 0, minute |-> 0]

StrpFields(r) ==
    StrpDate(r.ok,
             IF r.got["%Y"] # <<>> THEN ToInt(r.got["%Y"])
             ELSE StrptimeYear2(ToInt(r.got["%y"])),
             ToInt(r.got["%m"]), ToInt(LStrip(r.got["%d"])),
             ToInt(r.got["%H"]), ToInt(r.got["%M"]))

\* datetime.strptime(s, fmt)
Strptime(s, fmt) == StrpFields(StrpMatch(fmt, s, 1, NoFields))

----------------------------------------------------------------------------
(* main.py parse_date_time *)

Formats ==
    << <<"%y", "-", "%m", "-", "%d", "(", "%a", ")", " ", "%H", ":", "%M">>,
       <<"%Y", "-", "%m", "-", "%d", "(", "%a", ")", " ", "%H", ":", "%M">>,
       <<"%y", "-", "%m", "-", "%d", " ", "%H", ":", "%M">>,
       <<"%Y", "-", "%m", "-", "%d", " ", "%H", ":", "%M">>,
       <<"%y", "-", "%m", "-", "%d">>,
       <<"%Y", "-", "%m", "-", "%d">> >>

DefaultTime == <<"0", "9", ":", "0", "0">>

NoDate == [date |-> None, time |-> None]

HasHour(fmt) == \E k \in 1..Len(fmt) : fmt[k] = "%H"

\* a, or b when a is no date
OrElseDate(a, b) == IF a # NoDate THEN a ELSE b

\* What parse_date_time returns when a format is accepted
FormatResult(dt, has_hour) ==
    IF dt.ok
    THEN [date |-> StrfDate(dt.year, dt.month, dt.day),
          time |-> IF has_hour
                   THEN Fmt2(dt.hour) \o <<":">> \o Fmt2(dt.minute)
                   ELSE DefaultTime]
    ELSE NoDate

\* The first format of Formats, from the k-th on, that strptime accepts.
RECURSIVE TryFormats(_, _)
TryFormats(s, k) ==
    IF k > Len(Formats) THEN NoDate
    ELSE OrElseDate(FormatResult(Strptime(s, Formats[k]), HasHour(Formats[k])),
                    TryFormats(s, k + 1))

Seps == {"-", "/", "."}

AllDigits(s, k, n) == \A j \in 0..(n - 1) : IsDigit(At(s, k + j))

\* (\d{2,4})[-/.](\d{1,2})[-/.](\d{1,2}) at position k with the three
\* group lengths ly, lm, ld
DateAt(s, k, ly, lm, ld) ==
    /\ AllDigits(s, k, ly)
    /\ At(s, k + ly) \in Seps
    /\ AllDigits(s, k + ly + 1, lm)
    /\ At(s, k + ly + 1 + lm) \in Seps
    /\ AllDigits(s, k + ly + lm + 2, ld)

\* re.search: the leftmost start, and there the longest year, then month,
\* then day (greedy groups, given up from the right).
DateMatches(s) ==
    {t \in (1..Len(s)) \X {2, 3, 4} \X {1, 2} \X {1, 2} :
        DateAt(s, t[1], t[2], t[3], t[4])}

Before(t, u) ==
    \/ t[1] < u[1]
    \/ t[1] = u[1] /\ t[2] > u[2]
    \/ t[1] = u[1] /\ t[2] = u[2] /\ t[3] > u[3]
    \/ t[1] = u[1] /\ t[2] = u[2] /\ t[3] = u[3] /\ t[4] >= u[4]

\* (?:\s*(\d{1,2}):(\d{2}))? at position k: the hour and minute texts,
\* empty when the group takes no part in the match
HourLen(s, h) ==
    IF AllDigits(s, h, 2) /\ At(s, h + 2) = ":" /\ AllDigits(s, h + 3, 2)
    THEN 2
    ELSE IF AllDigits(s, h, 1) /\ At(s, h + 1) = ":" /\ AllDigits(s, h + 2, 2)
    THEN 1 ELSE 0

TimeGroups(s, h, n) ==
    IF n = 0 THEN [hour |-> <<>>, minute |-> <<>>]
    ELSE [hour |-> SubSeq(s, h, h + n - 1),
          minute |-> SubSeq(s, h + n + 1, h + n + 2)]

TimeFrom(s, h) == TimeGroups(s, h, HourLen(s, h))

TimeAt(s, k) == TimeFrom(s, k + SpaceRun(s, k))

\* The pivot of the regular-expression branch (main.py line 334).
PivotYear(year) ==
    IF ToInt(year) < 50 THEN <<"2", "0">> \o year ELSE <<"1", "9">> \o year

\* The regular-expression branch without the calendar check
RegexUnchecked(date_formatted, hour, minute) ==
    [date |-> date_formatted,
     time |-> IF hour # <<>> /\ minute # <<>>
              THEN ZFill2(hour) \o <<":">> \o minute
              ELSE DefaultTime]

\* The validation and the result of the regular-expression branch
RegexChecked(date_formatted, hour, minute) ==
    IF Strptime(date_formatted, <<"%Y", "-", "%m", "-", "%d">>).ok
    THEN [date |-> date_formatted,
          time |-> IF hour # <<>> /\ minute # <<>>
                   THEN ZFill2(hour) \o <<":">> \o minute
                   ELSE DefaultTime]
    ELSE NoDate

RegexGroups(year, month, day, tm) ==
    RegexChecked((IF Len(year) = 2 THEN PivotYear(year) ELSE year)
                     \o <<"-">> \o ZFill2(month) \o <<"-">> \o ZFill2(day),
                 tm.hour, tm.minute)

\* The match that starts at k with group lengths ly, lm, ld
RegexMatch(s, k, ly, lm, ld) ==
    RegexGroups(SubSeq(s, k, k + ly - 1),
                SubSeq(s, k + ly + 1, k + ly + lm),
                SubSeq(s, k + ly + lm + 2, k + ly + lm + ld + 1),
                TimeAt(s, k + ly + lm + ld + 2))

FirstMatch(M) == CHOOSE x \in M : \A u \in M : Before(x, u)

RegexFirst(s, t) == RegexMatch(s, t[1], t[2], t[3], t[4])

RegexIn(s, M) == IF M = {} THEN NoDate ELSE RegexFirst(s, FirstMatch(M))

RegexParse(s) == RegexIn(s, DateMatches(s))

ParseStripped(s) == OrElseDate(TryFormats(s, 1), RegexParse(s))

parse_date_time(text) ==
    IF ~Truthy(text) THEN NoDate ELSE ParseStripped(Strip(text))

----------------------------------------------------------------------------
(* Tables: data is a sequence of rows, a row the sequence of its cells in   *)
(* column order; the column key of a cell is its position (1 is 'A').      *)
(* Row and record indices are Python's, counted from 0.                    *)

NoKey == 0

\* No row of the sheets table
NoSheet == [id |-> 0, name |-> <<>>]

RowAt(data, i) == data[i + 1]

\* key in row
HasKey(row, key) == key >= 1 /\ key <= Len(row)

Min(a, b) == IF a < b THEN a ELSE b
Max(a, b) == IF a > b THEN a ELSE b

\* Keywords of find_column_mappings
NameKeywords ==
    {<<"seong", "ham">>, <<"yi", "reum">>, <<"sin", "cheong", "ja">>,
     <<"go", "gaek", "myeong">>, <<"hwan", "ja", "myeong">>}

PhoneKeywords ==
    {<<"yeon", "rak", "cheo">>, <<"jeon", "hwa">>, <<"haen", "deu", "pon">>,
     <<"hyu", "dae", "pon">>}

DatePriorityKeywords ==
    {<<"hwak", "jeong", "il", "si">>,
     <<"ye", "yak", "hwak", "jeong", "il", "si">>,
     <<"su", "sul", "il">>, <<"si", "sul", "il">>}

DateGeneralKeywords ==
    {<<"ye", "yak", "il", "si">>, <<"nal", "jja">>, <<"il", "si">>}

ProcedureKeywords ==
    {<<"si", "sul">>, <<"su", "sul">>, <<"bu", "wi">>, <<"jin", "haeng">>,
     <<"hang", "mok">>}

ScanRows == 15
PatternRows == 20
PatternWindow == 10
PatternHits == 3
DensityWindow == 20
DensityHits == 3

Placeholders == {<<>>, <<"-">>, <<"N", "/", "A">>}

\* One row counted by check_column_has_data
CountsAsData(row, column_key) ==
    /\ HasKey(row, column_key)
    /\ Truthy(row[column_key])
    /\ Strip(row[column_key]) \notin Placeholders

check_column_has_data(data, column_key, start_row) ==
    LET check_limit == Min(start_row + DensityWindow, Len(data))
        data_count ==
            Cardinality({i \in start_row..(check_limit - 1) :
                            CountsAsData(RowAt(data, i), column_key)})
    IN  IF data_count >= DensityHits THEN TRUE ELSE data_count >= 1

NoMappings == [name |-> NoKey, phone |-> NoKey, date |-> NoKey, procedure |-> NoKey]

\* The chain whose general date branch does not ask whether the Date role
\* is bound
RoleOfUnguarded(value_str, date_bound) ==
    IF ContainsAny(value_str, NameKeywords) THEN "name"
    ELSE IF ContainsAny(value_str, PhoneKeywords) THEN "phone"
    ELSE IF ContainsAny(value_str, DatePriorityKeywords) THEN "date"
    ELSE IF ContainsAny(value_str, DateGeneralKeywords) THEN "date"
    ELSE IF ContainsAny(value_str, ProcedureKeywords) THEN "procedure"
    ELSE "none"

\* The if/elif chain of the keyword scan: the role whose branch a cell
\* with this lowered, stripped text enters
RoleOf(value_str, date_bound) ==
    IF ContainsAny(value_str, NameKeywords) THEN "name"
    ELSE IF ContainsAny(value_str, PhoneKeywords) THEN "phone"
    ELSE IF ContainsAny(value_str, DatePriorityKeywords) THEN "date"
    ELSE IF ~date_bound /\ ContainsAny(value_str, DateGeneralKeywords)
    THEN "date"
    ELSE IF ContainsAny(value_str, ProcedureKeywords) THEN "procedure"
    ELSE "none"

CellRole(value, date_bound) ==
    IF ~Truthy(value) THEN "none" ELSE RoleOf(Strip(Lower(value)), date_bound)

\* mappings[role] = key when the column has data beneath the cell
Bind(mappings, role, key, dense) ==
    IF role # "none" /\ dense THEN [mappings EXCEPT ![role] = key]
    ELSE mappings

ScanCell(data, row_idx, key, mappings) ==
    Bind(mappings,
         CellRole(RowAt(data, row_idx)[key], mappings.date # NoKey),
         key,
         check_column_has_data(data, key, row_idx + 1))

\* The keyword scan from cell (row_idx, key) on: rows top to bottom within
\* the first ScanRows rows, the cells of a row in column order
RECURSIVE KeywordScan(_, _, _, _)
KeywordScan(data, row_idx, key, mappings) ==
    IF row_idx >= Min(ScanRows, Len(data)) THEN mappings
    ELSE IF key > Len(RowAt(data, row_idx))
    THEN KeywordScan(data, row_idx + 1, 1, mappings)
    ELSE KeywordScan(data, row_idx, key + 1,
                     ScanCell(data, row_idx, key, mappings))

\* A bare token of 2 to 4 Hangul syllables
LooksLikeName(value_str) ==
    /\ Len(value_str) >= 2
    /\ Len(value_str) <= 4
    /\ \A k \in 1..Len(value_str) : value_str[k] \in Hangul

IsNameCell(row, key) ==
    /\ HasKey(row, key)
    /\ Truthy(row[key])
    /\ LooksLikeName(Strip(row[key]))

PatternCount(data, row_idx, key) ==
    Cardinality({i \in row_idx..(Min(row_idx + PatternWindow, Len(data)) - 1) :
                    IsNameCell(RowAt(data, i), key)})

PatternCell(data, row_idx, key) ==
    /\ IsNameCell(RowAt(data, row_idx), key)
    /\ PatternCount(data, row_idx, key) >= PatternHits

\* The pattern fallback from cell (row_idx, key) on: the key of the first
\* cell in scan order that starts a window with PatternHits names
RECURSIVE PatternScan(_, _, _)
PatternScan(data, row_idx, key) ==
    IF row_idx >= Min(PatternRows, Len(data)) THEN NoKey
    ELSE IF key > Len(RowAt(data, row_idx))
    THEN PatternScan(data, row_idx + 1, 1)
    ELSE IF PatternCell(data, row_idx, key) THEN key
    ELSE PatternScan(data, row_idx, key + 1)

\* The pattern fallback runs when the keyword scan bound no name column
WithPattern(data, mappings) ==
    IF mappings.name = NoKey
    THEN [mappings EXCEPT !.name = PatternScan(data, 0, 1)]
    ELSE mappings

find_column_mappings(data) ==
    WithPattern(data, KeywordScan(data, 0, 1, NoMappings))

----------------------------------------------------------------------------
(* Facility resolution *)

Sentinel == <<"gae", "in", "jeong", "bo">>

Newb == <<"nyu", "beu", "ui", "won">>
Cellnine == <<"sel", "na", "in", "cheong", "dam">>

SheetStellaPatterns ==
    {<<"seu", "tel", "la", "em", "tu", "tu">>, <<"seu", "tel", "la">>,
     <<"nyu", "beu">>, <<"em", "tu", "tu">>, <<"m", "2", "m">>}

SheetGeneoPatterns == {<<"je", "ne", "oh", "ek", "seu">>, <<"sel", "na", "in">>}

SheetHospitalKeywords ==
    {<<"byeong", "won">>, <<"ui", "won">>, <<"pi", "bu", "gwa">>, <<"oe", "gwa">>}

HospitalKeywords ==
    SheetHospitalKeywords \cup {<<"keul", "ri", "nik">>, <<"sen", "teo">>}

NearStellaPatterns ==
    {<<"seu", "tel", "la", "em", "tu", "tu", "_", "nyu", "beu", "ui", "won">>,
     <<"seu", "tel", "la", "em", "tu", "tu">>, <<"seu", "tel", "la">>,
     <<"nyu", "beu", "ui", "won">>, <<"nyu", "beu">>, <<"em", "tu", "tu">>,
     <<"m", "2", "m">>}

NearGeneoPatterns ==
    {<<"je", "ne", "oh", "ek", "seu", "_", "sel", "na", "in", "cheong", "dam">>,
     <<"je", "ne", "oh", "ek", "seu">>, <<"sel", "na", "in", "cheong", "dam">>,
     <<"sel", "na", "in">>}

BackupStellaPatterns ==
    {<<"seu", "tel", "la">>, <<"nyu", "beu">>, <<"em", "tu", "tu">>,
     <<"m", "2", "m">>}

\* The sheet-name table of extract_hospital_from_data, in dictionary order
SheetNamePatterns ==
    << [pattern |-> <<"la", "bi", "ang">>,
        hospital |-> <<"la", "bi", "ang", "seong", "hyeong", "oe", "gwa">>],
       [pattern |-> <<"teu", "raen", "deu">>,
        hospital |-> <<"teu", "raen", "deu", "seong", "hyeong", "oe", "gwa">>],
       [pattern |-> <<"hwang", "geum">>,
        hospital |-> <<"hwang", "geum", "pi", "bu", "gwa">>],
       [pattern |-> <<"sel", "na", "in">>, hospital |-> Cellnine],
       [pattern |-> <<"je", "ne", "oh", "ek", "seu">>, hospital |-> Newb],
       [pattern |-> <<"seu", "tel", "la">>, hospital |-> Newb],
       [pattern |-> <<"ke", "yi", "beul", "rin">>,
        hospital |-> <<"ke", "yi", "beul", "rin", "pil", "reo">>],
       [pattern |-> <<"jyu", "beu", "gel">>,
        hospital |-> <<"jyu", "beu", "gel", "pil", "reo">>] >>

\* A row holds the marker in some cell
IsAnchorRow(row) ==
    \E key \in 1..Len(row) : Truthy(row[key]) /\ Contains(row[key], Sentinel)

\* What extract_hospital_from_data makes of one stripped cell above a
\* marker row; the empty text when the cell decides nothing
SheetValueHospital(prev_value, prev_value_lower) ==
    IF ContainsAny(prev_value_lower, SheetStellaPatterns) THEN Newb
    ELSE IF ContainsAny(prev_value_lower, SheetGeneoPatterns) THEN Cellnine
    ELSE IF \/ ContainsAny(prev_value_lower, SheetHospitalKeywords)
            \/ (Contains(prev_value, <<"-">>) /\ Len(prev_value) > 5)
    THEN prev_value
    ELSE <<>>

SheetStripped(prev_value) == SheetValueHospital(prev_value, Lower(prev_value))

SheetCellHospital(cell) ==
    IF ~Truthy(cell) THEN <<>> ELSE SheetStripped(Strip(cell))

\* The first cell of the row, in column order, that decides
RECURSIVE SheetRowHospital(_, _)
SheetRowHospital(prev_row, key) ==
    IF key > Len(prev_row) THEN <<>>
    ELSE OrElse(SheetCellHospital(prev_row[key]),
                SheetRowHospital(prev_row, key + 1))

\* The marker rows from row_idx on, top to bottom: the first whose row
\* above decides
RECURSIVE SheetAnchorScan(_, _)
SheetAnchorScan(data, row_idx) ==
    IF row_idx >= Len(data) THEN <<>>
    ELSE OrElse(IF row_idx > 0 /\ IsAnchorRow(RowAt(data, row_idx))
                THEN SheetRowHospital(RowAt(data, row_idx - 1), 1)
                ELSE <<>>,
                SheetAnchorScan(data, row_idx + 1))

RECURSIVE SheetNameScan(_, _)
SheetNameScan(sheet_name_lower, k) ==
    IF k > Len(SheetNamePatterns) THEN <<>>
    ELSE IF Contains(sheet_name_lower, SheetNamePatterns[k].pattern)
    THEN SheetNamePatterns[k].hospital
    ELSE SheetNameScan(sheet_name_lower, k + 1)

extract_hospital_from_data(sheet_name, data) ==
    OrElse(SheetAnchorScan(data, 0), SheetNameScan(Lower(sheet_name), 1))

NearWindow == 50
BackupBefore == 10
BackupAfter == 3

\* The backward scan of find_hospital_near_name over rows i, i-1, ...,
\* start_row: closest is [row, distance], row -1 while none is found
RECURSIVE ClosestScan(_, _, _, _, _)
ClosestScan(all_data, current_row_idx, i, start_row, closest) ==
    IF i < start_row THEN closest
    ELSE ClosestScan(all_data, current_row_idx, i - 1, start_row,
            IF /\ i < Len(all_data)
               /\ IsAnchorRow(RowAt(all_data, i))
               /\ (closest.row = -1 \/ current_row_idx - i < closest.distance)
            THEN [row |-> i, distance |-> current_row_idx - i]
            ELSE closest)

\* The marker row of the window that is met first from the top
farthest_info_row(all_data, current_row_idx) ==
    LET found == {i \in Max(0, current_row_idx - NearWindow)..current_row_idx :
                     i < Len(all_data) /\ IsAnchorRow(RowAt(all_data, i))}
    IN  IF found = {} THEN -1 ELSE CHOOSE i \in found : \A j \in found : i <= j

closest_info_row(all_data, current_row_idx) ==
    ClosestScan(all_data, current_row_idx, current_row_idx,
                Max(0, current_row_idx - NearWindow),
                [row |-> -1, distance |-> 0]).row

\* What the anchor strategy makes of one stripped cell above the closest
\* marker
NearValueHospital(prev_value, prev_value_lower) ==
    IF ContainsAny(prev_value_lower, NearStellaPatterns) THEN Newb
    ELSE IF ContainsAny(prev_value_lower, NearGeneoPatterns) THEN Cellnine
    ELSE IF ContainsAny(prev_value_lower, HospitalKeywords) THEN prev_value
    ELSE IF Contains(prev_value, <<"-">>) /\ Len(prev_value) > 10
    THEN prev_value
    ELSE <<>>

NearStripped(prev_value) == NearValueHospital(prev_value, Lower(prev_value))

NearCellHospital(cell) ==
    IF ~Truthy(cell) THEN <<>> ELSE NearStripped(Strip(cell))

RECURSIVE NearRowHospital(_, _)
NearRowHospital(prev_row, key) ==
    IF key > Len(prev_row) THEN <<>>
    ELSE OrElse(NearCellHospital(prev_row[key]),
                NearRowHospital(prev_row, key + 1))

\* What the backup strategy makes of one cell
BackupValueHospital(stripped, value_str) ==
    IF ContainsAny(value_str, BackupStellaPatterns) THEN Newb
    ELSE IF ContainsAny(value_str, SheetGeneoPatterns) THEN Cellnine
    ELSE IF /\ ContainsAny(value_str, HospitalKeywords)
            /\ Len(value_str) < 100
            /\ Len(value_str) > 5
    THEN stripped
    ELSE <<>>

BackupStripped(stripped) == BackupValueHospital(stripped, Lower(stripped))

BackupCellHospital(cell) ==
    IF ~Truthy(cell) THEN <<>> ELSE BackupStripped(Strip(cell))

RECURSIVE BackupRowHospital(_, _)
BackupRowHospital(row, key) ==
    IF key > Len(row) THEN <<>>
    ELSE OrElse(BackupCellHospital(row[key]), BackupRowHospital(row, key + 1))

\* range(max(0, r - 10), min(r + 3, len(all_data)))
BackupStop(all_data, current_row_idx) ==
    Min(current_row_idx + BackupAfter, Len(all_data))

RECURSIVE BackupScan(_, _, _)
BackupScan(all_data, i, stop) ==
    IF i >= stop THEN <<>>
    ELSE OrElse(BackupRowHospital(RowAt(all_data, i), 1),
                BackupScan(all_data, i + 1, stop))

\* The anchor strategy without the test closest_info_row > 0: above a
\* marker line in row 0 all_data[-1], the last row, is read
AboveAnchorWrapped(all_data, c) ==
    IF c >= 0
    THEN NearRowHospital(RowAt(all_data, (c - 1) % Len(all_data)), 1)
    ELSE <<>>

\* The anchor strategy: the row above the closest marker row c (-1: none)
AboveAnchor(all_data, c) ==
    IF c > 0 THEN NearRowHospital(RowAt(all_data, c - 1), 1) ELSE <<>>

AnchorHospital(all_data, current_row_idx) ==
    AboveAnchor(all_data, closest_info_row(all_data, current_row_idx))

find_hospital_near_name(all_data, current_row_idx, name_value) ==
    OrElse(AnchorHospital(all_data, current_row_idx),
           BackupScan(all_data, Max(0, current_row_idx - BackupBefore),
                      BackupStop(all_data, current_row_idx)))

----------------------------------------------------------------------------
(* Row extraction *)

\* 010-\d{4}-\d{4} at position k
Phone010At(s, k) ==
    /\ SubSeq(s, k, Min(k + 3, Len(s))) = <<"0", "1", "0", "-">>
    /\ AllDigits(s, k + 4, 4)
    /\ At(s, k + 8) = "-"
    /\ AllDigits(s, k + 9, 4)

\* \d{3}-\d{3,4}-\d{4} at position k with a middle group of n digits
PhoneAt(s, k, n) ==
    /\ AllDigits(s, k, 3)
    /\ At(s, k + 3) = "-"
    /\ AllDigits(s, k + 4, n)
    /\ At(s, k + 4 + n) = "-"
    /\ AllDigits(s, k + 5 + n, 4)

Leftmost(S) == CHOOSE k \in S : \A j \in S : k <= j

\* The second pattern's match at k: the middle group is 4 digits or 3
PhoneMatch(text, k) ==
    SubSeq(text, k, k + (IF PhoneAt(text, k, 4) THEN 12 ELSE 11))

\* re.search of the two patterns in order
PhoneSearch(text, first, second) ==
    IF first # {} THEN SubSeq(text, Leftmost(first), Leftmost(first) + 12)
    ELSE IF second # {} THEN PhoneMatch(text, Leftmost(second))
    ELSE <<>>

extract_phone_number(text) ==
    IF ~Truthy(text) THEN <<>>
    ELSE PhoneSearch(text,
                     {k \in 1..Len(text) : Phone010At(text, k)},
                     {k \in 1..Len(text) :
                         PhoneAt(text, k, 4) \/ PhoneAt(text, k, 3)})

RECURSIVE find_phone_from(_, _)
find_phone_from(row_dict, key) ==
    IF key > Len(row_dict) THEN <<>>
    ELSE OrElse(extract_phone_number(row_dict[key]),
                find_phone_from(row_dict, key + 1))

\* find_phone_in_row that scans the row from its last cell
RECURSIVE find_phone_back(_, _)
find_phone_back(row_dict, key) ==
    IF key < 1 THEN <<>>
    ELSE OrElse(extract_phone_number(row_dict[key]),
                find_phone_back(row_dict, key - 1))

LastPhoneInRow(row_dict) == find_phone_back(row_dict, Len(row_dict))

find_phone_in_row(row_dict) == find_phone_from(row_dict, 1)

\* row_dict[column_mappings[role]] when the role is bound, the key is in
\* the row and the cell is truthy; None otherwise
MappedCell(row_dict, key) ==
    IF key # NoKey /\ HasKey(row_dict, key) /\ Truthy(row_dict[key])
    THEN row_dict[key]
    ELSE None

\* The result dictionary from the mapped cells
Extracted(name_value, phone, dt, proc_value) ==
    [name |-> IF name_value # None THEN Strip(name_value) ELSE <<>>,
     phone |-> phone,
     date |-> IF Truthy(dt.date) THEN dt.date ELSE <<>>,
     time |-> IF Truthy(dt.time) THEN dt.time ELSE DefaultTime,
     procedure |-> IF proc_value # None THEN Strip(proc_value) ELSE <<>>]

\* extract_meaningful_data that gives a row without a date a default one
ExtractDefaultDate(row_dict, column_mappings) ==
    Extracted(MappedCell(row_dict, column_mappings.name),
              OrElse(extract_phone_number(
                         MappedCell(row_dict, column_mappings.phone)),
                     find_phone_in_row(row_dict)),
              OrElseDate(parse_date_time(
                             MappedCell(row_dict, column_mappings.date)),
                         [date |-> StrfDate(2025, 1, 1), time |-> DefaultTime]),
              MappedCell(row_dict, column_mappings.procedure))

extract_meaningful_data(row_dict, column_mappings) ==
    Extracted(MappedCell(row_dict, column_mappings.name),
              OrElse(extract_phone_number(
                         MappedCell(row_dict, column_mappings.phone)),
                     find_phone_in_row(row_dict)),
              parse_date_time(MappedCell(row_dict, column_mappings.date)),
              MappedCell(row_dict, column_mappings.procedure))

----------------------------------------------------------------------------
(* Regular expressions of src/database.py: a pattern is a sequence of      *)
(* items, an item a character class taken lo to hi times, greedily, and    *)
(* given back from the right when the rest of the pattern fails            *)

Letters ==
    {"a", "b", "c", "d", "e", "f", "g", "h", "i", "j", "k", "l", "m", "n",
     "o", "p", "q", "r", "s", "t", "u", "v", "w", "x", "y", "z",
     "A", "B", "D", "F", "M", "N", "S", "T", "W"}

\* \w
IsWord(c) == c \in Digits \cup Hangul \cup Letters \cup {"_"}

ClassHas(cls, c) ==
    CASE cls = "\\d" -> IsDigit(c)
      [] cls = "\\w" -> IsWord(c)
      [] cls = "\\s" -> IsSpace(c)
      [] OTHER -> c = cls

Unbounded == -1

Item(cls, lo, hi, group) == [cls |-> cls, lo |-> lo, hi |-> hi, group |-> group]
Lit(c) == Item(c, 1, 1, FALSE)
D(lo, hi) == Item("\\d", lo, hi, TRUE)

\* How many characters from position k the item can take at most
RECURSIVE RunLen(_, _, _, _)
RunLen(item, s, k, n) ==
    IF (item.hi # Unbounded /\ n >= item.hi) \/ ~ClassHas(item.cls, At(s, k + n))
    THEN n
    ELSE RunLen(item, s, k, n + 1)

NoMatch == <<-1>>

ReCons(n, rest, alt) == IF rest # NoMatch THEN <<n>> \o rest ELSE alt

\* The lengths the items from the i-th on take when matched at position
\* k, the first in the backtracking order; NoMatch when there is none
RECURSIVE ReMatch(_, _, _, _)
RECURSIVE ReTry(_, _, _, _, _)
ReMatch(pat, s, k, i) ==
    IF i > Len(pat) THEN <<>>
    ELSE ReTry(pat, s, k, i, RunLen(pat[i], s, k, 0))

ReTry(pat, s, k, i, n) ==
    IF n < pat[i].lo THEN NoMatch
    ELSE ReCons(n, ReMatch(pat, s, k + n, i + 1), ReTry(pat, s, k, i, n - 1))

RECURSIVE SumTo(_, _)
SumTo(lens, i) == IF i = 0 THEN 0 ELSE lens[i] + SumTo(lens, i - 1)

\* match.groups() of the match at k with these item lengths
ReGroups(pat, s, k, lens) ==
    LET texts == [i \in 1..Len(pat) |->
                     SubSeq(s, k + SumTo(lens, i - 1), k + SumTo(lens, i) - 1)]
        grouped == SelectSeq([i \in 1..Len(pat) |-> i], LAMBDA i : pat[i].group)
    IN  [g \in 1..Len(grouped) |-> texts[grouped[g]]]

ReGroupsAt(pat, s, k) == ReGroups(pat, s, k, ReMatch(pat, s, k, 1))

ReLeftmost(pat, s, starts) ==
    IF starts = {} THEN NoMatch ELSE ReGroupsAt(pat, s, Leftmost(starts))

\* re.search(pattern, s): the groups of the leftmost match, or NoMatch
ReSearch(pat, s) ==
    ReLeftmost(pat, s, {k \in 1..(Len(s) + 1) : ReMatch(pat, s, k, 1) # NoMatch})

----------------------------------------------------------------------------
(* database.py parse_date_time *)

\* str.replace(c, '')
Without(t, c) == SelectSeq(t, LAMBDA x : x # c)

\* str.isdigit()
IsDigitText(t) == t # <<>> /\ \A k \in 1..Len(t) : IsDigit(t[k])

\* float(t) is defined, for a text that isdigit() once '.' and '-' are
\* taken out: one optional leading '-', at most one '.'
IsFloatText(t) ==
    /\ Len(SelectSeq(t, LAMBDA x : x = ".")) <= 1
    /\ \A k \in 2..Len(t) : t[k] # "-"

RECURSIVE DotAt(_, _)
DotAt(t, k) == IF k > Len(t) \/ t[k] = "." THEN k ELSE DotAt(t, k + 1)

\* float(t) > 40000
SerialLimit == 40000

ExceedsLimit(whole, fraction) ==
    \/ ToInt(whole) > SerialLimit
    \/ ToInt(whole) = SerialLimit /\ \E k \in 1..Len(fraction) : fraction[k] # "0"

IsSerial(t, dot) ==
    /\ t[1] # "-"
    /\ ExceedsLimit(SubSeq(t, 1, dot - 1), SubSeq(t, dot + 1, Len(t)))

\* The days timedelta(days=excel_date - 2) adds to the date, whole days
SerialShift == 2

SerialDays(t, dot) == ToInt(SubSeq(t, 1, dot - 1)) - SerialShift

\* 400 years of the calendar
DaysIn400Years == 146097

\* datetime.max is 9999-12-31, this many days after 1900-01-01
MaxDays == 2958463

\* 1900-01-01 is this many days after 0000-03-01
EpochDays == 693901

\* The date from the year y that begins in March, and the month mp and
\* day of the year doy counted from the first of March
CivilDate(y, m, d) ==
    [year |-> IF m <= 2 THEN y + 1 ELSE y, month |-> m, day |-> d]

CivilFromMp(y, doy, mp) ==
    CivilDate(y, IF mp < 10 THEN mp + 3 ELSE mp - 9,
              doy - (153 * mp + 2) \div 5 + 1)

CivilFromDoy(y, doy) == CivilFromMp(y, doy, (5 * doy + 2) \div 153)

CivilFromYoe(era, doe, yoe) ==
    CivilFromDoy(yoe + era * 400,
                 doe - (365 * yoe + yoe \div 4 - yoe \div 100))

CivilFromDoe(era, doe) ==
    CivilFromYoe(era, doe,
                 (doe - doe \div 1460 + doe \div 36524 - doe \div 146096)
                     \div 365)

\* The date z days after 0000-03-01
CivilFromDays(z) == CivilFromDoe(z \div DaysIn400Years, z % DaysIn400Years)

SerialDate(d) == [date |-> StrfDate(d.year, d.month, d.day), time |-> DefaultTime]

\* excel_epoch + timedelta(days): OverflowError past datetime.max, which
\* the bare except turns into no result
EpochPlus(days) ==
    IF days > MaxDays THEN NoDate
    ELSE SerialDate(CivilFromDays(EpochDays + days))

\* The serial-number branch
SerialParse(date_str) ==
    IF /\ IsDigitText(Without(Without(date_str, "."), "-"))
       /\ IsFloatText(date_str)
       /\ IsSerial(date_str, DotAt(date_str, 1))
    THEN EpochPlus(SerialDays(date_str, DotAt(date_str, 1)))
    ELSE NoDate

patterns ==
    << <<D(2, 2), Lit("-"), D(2, 2), Lit("-"), D(2, 2), Lit("("),
         Item("\\w", 1, 1, TRUE), Lit(")"), Item("\\s", 0, Unbounded, FALSE),
         D(1, 2), Lit(":"), D(2, 2)>>,
       <<D(4, 4), Lit("-"), D(1, 2), Lit("-"), D(1, 2),
         Item("\\s", 0, Unbounded, FALSE), D(1, 2), Lit(":"), D(2, 2)>>,
       <<D(2, 2), Lit("."), D(1, 2), Lit("."), D(1, 2),
         Item("\\s", 0, Unbounded, FALSE), D(1, 2), Lit(":"), D(2, 2)>>,
       <<D(2, 2), Lit("-"), D(1, 2), Lit("-"), D(1, 2)>>,
       <<D(4, 4), Lit("-"), D(1, 2), Lit("-"), D(1, 2)>> >>

\* The pivot of database.py (line 293)
DbPivotYear(year) ==
    IF ToInt(year) < 50 THEN <<"2", "0">> \o year ELSE <<"1", "9">> \o year

\* datetime.strptime(date_formatted, "%Y-%m-%d") and the time of the match
DbChecked(date_formatted, groups) ==
    IF Strptime(date_formatted, <<"%Y", "-", "%m", "-", "%d">>).ok
    THEN [date |-> date_formatted,
          time |-> IF Len(groups) >= 6
                   THEN ZFill2(groups[Len(groups) - 1]) \o <<":">>
                            \o groups[Len(groups)]
                   ELSE DefaultTime]
    ELSE NoDate

DbGroups(groups) ==
    IF groups = NoMatch THEN NoDate
    ELSE DbChecked((IF Len(groups[1]) = 2 THEN DbPivotYear(groups[1])
                    ELSE groups[1])
                       \o <<"-">> \o ZFill2(groups[2]) \o <<"-">> \o ZFill2(groups[3]),
                   groups)

\* The first pattern, from the k-th on, whose leftmost match is a date
RECURSIVE DbTryPatterns(_, _)
DbTryPatterns(date_str, k) ==
    IF k > Len(patterns) THEN NoDate
    ELSE OrElseDate(DbGroups(ReSearch(patterns[k], date_str)),
                    DbTryPatterns(date_str, k + 1))

DbParseStripped(date_str) ==
    OrElseDate(SerialParse(date_str), DbTryPatterns(date_str, 1))

\* database.py parse_date_time; None stands for NaN
db_parse_date_time(date_str) ==
    IF date_str = None \/ Strip(date_str) = <<>> THEN NoDate
    ELSE DbParseStripped(Strip(date_str))

----------------------------------------------------------------------------
(* database.py: the Excel import.  A sheet of the workbook is the table    *)
(* pandas reads (df): its rows have one width and an empty cell is None    *)

PhonePattern ==
    <<D(3, 3), Lit("-"), D(3, 4), Lit("-"), D(4, 4)>>

\* The text with the digits of the number in groups of 3, n and the rest
PhoneFormat(phone_str, n) ==
    SubSeq(phone_str, 1, 3) \o <<"-">> \o SubSeq(phone_str, 4, 3 + n)
        \o <<"-">> \o SubSeq(phone_str, 4 + n, Len(phone_str))

\* ''.join(re.findall(r'\d+', text)) and what is made of it
PhoneDigits(text, phone_str) ==
    IF Len(phone_str) = 11 /\ SubSeq(phone_str, 1, 3) = <<"0", "1", "0">>
    THEN PhoneFormat(phone_str, 4)
    ELSE IF Len(phone_str) = 10 THEN PhoneFormat(phone_str, 3)
    ELSE text

PhoneGroups(text, groups) ==
    IF groups # NoMatch
    THEN groups[1] \o <<"-">> \o groups[2] \o <<"-">> \o groups[3]
    ELSE PhoneDigits(text, SelectSeq(text, IsDigit))

\* database.py extract_phone_number
db_extract_phone_number(text) ==
    IF text = None THEN <<>> ELSE PhoneGroups(text, ReSearch(PhonePattern, text))

XlNameKeywords == {<<"seong", "ham">>, <<"yi", "reum">>}
XlPhoneKeywords ==
    {<<"yeon", "rak", "cheo">>, <<"jeon", "hwa">>, <<"haen", "deu", "pon">>}
XlDateKeywords == {<<"nal", "jja">>, <<"il", "si">>, <<"ye", "yak">>}
XlDateConfirmed == {<<"hwak", "jeong">>, <<"il", "si">>, <<"su", "sul", "il">>}
XlProcedureKeywords == {<<"si", "sul">>, <<"su", "sul">>, <<"bu", "wi">>}

\* The if/elif chain of find_header_row on one lowered cell
XlRoleOf(cell_str) ==
    IF ContainsAny(cell_str, XlNameKeywords) THEN "name"
    ELSE IF ContainsAny(cell_str, XlPhoneKeywords) THEN "phone"
    ELSE IF ContainsAny(cell_str, XlDateKeywords)
    THEN (IF ContainsAny(cell_str, XlDateConfirmed) THEN "date" ELSE "none")
    ELSE IF ContainsAny(cell_str, XlProcedureKeywords) THEN "procedure"
    ELSE "none"

XlCellRole(cell_value) ==
    IF cell_value = None THEN "none" ELSE XlRoleOf(Lower(cell_value))

\* columns_mapping[role] after the loop over the cells: the last column
\* of the role, NoKey when the key is not in the dictionary
LastOf(cols) == IF cols = {} THEN NoKey ELSE CHOOSE c \in cols : \A d \in cols : d <= c

XlColumn(row, role) == LastOf({c \in 1..Len(row) : XlCellRole(row[c]) = role})

XlHeaderMapping(row) ==
    [name |-> XlColumn(row, "name"), phone |-> XlColumn(row, "phone"),
     date |-> XlColumn(row, "date"), procedure |-> XlColumn(row, "procedure")]

\* The row holds 성함 or 이름 in some cell
IsXlHeader(row) ==
    \E c \in 1..Len(row) : row[c] # None /\ ContainsAny(row[c], XlNameKeywords)

NoHeader == -1

\* find_header_row: [header_row, columns_mapping]
RECURSIVE FindHeaderFrom(_, _)
FindHeaderFrom(df, idx) ==
    IF idx >= Len(df) THEN [header_row |-> NoHeader, columns_mapping |-> NoMappings]
    ELSE IF IsXlHeader(RowAt(df, idx))
    THEN [header_row |-> idx, columns_mapping |-> XlHeaderMapping(RowAt(df, idx))]
    ELSE FindHeaderFrom(df, idx + 1)

find_header_row(df) == FindHeaderFrom(df, 0)

\* The filename table of extract_hospital_name_from_filename
hospital_mapping ==
    << [pattern |-> <<"la", "bi", "ang">>,
        hospital |-> <<"la", "bi", "ang", "seong", "hyeong", "oe", "gwa">>],
       [pattern |-> <<"teu", "raen", "deu">>,
        hospital |-> <<"teu", "raen", "deu", "seong", "hyeong", "oe", "gwa">>],
       [pattern |-> <<"hwang", "geum", "pi", "bu", "gwa">>,
        hospital |-> <<"hwang", "geum", "pi", "bu", "gwa">>],
       [pattern |-> <<"sel", "na", "in">>, hospital |-> Cellnine],
       [pattern |-> <<"je", "ne", "oh", "ek", "seu">>, hospital |-> Cellnine],
       [pattern |-> <<"ke", "yi", "beul", "rin">>,
        hospital |-> <<"ke", "yi", "beul", "rin", "pil", "reo">>],
       [pattern |-> <<"jyu", "beu", "gel">>,
        hospital |-> <<"jyu", "beu", "gel", "pil", "reo">>] >>

\* 알 수 없는 병원
UnknownHospital == <<"al", " ", "su", " ", "eop", "neun", " ", "byeong", "won">>

RECURSIVE FilenameScan(_, _)
FilenameScan(filename_lower, k) ==
    IF k > Len(hospital_mapping) THEN UnknownHospital
    ELSE IF Contains(filename_lower, hospital_mapping[k].pattern)
    THEN hospital_mapping[k].hospital
    ELSE FilenameScan(filename_lower, k + 1)

extract_hospital_name_from_filename(file) == FilenameScan(Lower(file), 1)

\* row.iloc[columns_mapping[role]] when the role is in the dictionary
XlCell(row, key) == IF key # NoKey THEN row[key] ELSE None

\* The appointment process_excel_file appends for a row
Appointment(hospital_name, name, phone, dt, proc_value, sheet_no, idx) ==
    [title |-> hospital_name \o <<"_">> \o name,
     name |-> name,
     date |-> dt.date,
     time |-> IF Truthy(dt.time) THEN dt.time ELSE DefaultTime,
     hospital |-> hospital_name,
     phone |-> phone,
     procedure |-> IF proc_value # None THEN Strip(proc_value) ELSE <<>>,
     sheet |-> sheet_no,
     row_index |-> idx + 1]

\* if appointment_date: appointments.append(appointment)
XlAppend(apps, appointment) ==
    IF Truthy(appointment.date) THEN Append(apps, appointment) ELSE apps

\* The loop body of process_excel_file on row idx of a sheet
XlStep(apps, row, columns_mapping, hospital_name, sheet_no, idx) ==
    IF XlCell(row, columns_mapping.name) = None
        \/ Strip(XlCell(row, columns_mapping.name)) = <<>>
    THEN apps
    ELSE XlAppend(apps,
            Appointment(hospital_name,
                        Strip(XlCell(row, columns_mapping.name)),
                        IF columns_mapping.phone # NoKey
                        THEN db_extract_phone_number(
                                 XlCell(row, columns_mapping.phone))
                        ELSE <<>>,
                        db_parse_date_time(XlCell(row, columns_mapping.date)),
                        XlCell(row, columns_mapping.procedure),
                        sheet_no, idx))

----------------------------------------------------------------------------
(* The texts the parser runs draw from *)

\* Year, month and day spellings and what may follow the day.
Years2 ==
    {<<"0", "0">>, <<"2", "5">>, <<"4", "9">>, <<"5", "0">>, <<"6", "8">>,
     <<"6", "9">>, <<"9", "9">>}

Years4 == {<<"2", "0", "2", "5">>, <<"2", "0", "5", "0">>, <<"1", "9", "5", "0">>}

Years3 == {<<"1", "2", "3">>}

Months == {<<"0", "8">>, <<"2">>, <<"1", "2">>, <<"1", "3">>}

Days == {<<"0", "5">>, <<"7">>, <<"2", "9">>, <<"3", "0">>, <<"3", "1">>}

TimeTail == <<" ", "1", "0", ":", "0", "0">>

Tails ==
    {<<>>,
     TimeTail,
     <<" ", "9", ":", "3", "0">>,
     <<"(", "hwa", ")">> \o TimeTail,
     <<"(", "T", "u", "e", ")">> \o TimeTail,
     <<" ", "2", "5", ":", "9", "9">>}

BuildDate(y, sep, m, d, tail) == y \o <<sep>> \o m \o <<sep>> \o d \o tail

BuiltDates ==
    {BuildDate(y, sep, m, d, tail) :
        y \in Years2 \cup Years4 \cup Years3, sep \in Seps, m \in Months,
        d \in Days, tail \in Tails}

OtherTexts ==
    {None, <<>>, <<" ">>, <<"T", "B", "D">>, <<"-">>,
     <<"4", "5", "1", "2", "3">>,
     <<"4", "0", "0", "0", "0">>,
     <<"4", "0", "0", "0", "1">>,
     <<" ", "2", "5", "-", "0", "8", "-", "0", "5", " ">>,
     <<"2", "5", "-", "0", "8", ".", "0", "5">>,
     <<"ye", "yak", " ", "2", "5", ".", "8", ".", "5", " ", " ", "1", "4", ":", "0", "0">>}

DateTexts == BuiltDates \cup OtherTexts

----------------------------------------------------------------------------
(* The events table (src/database.py) *)

\* clear_events_for_sheet that deletes nothing
KeepEvents(evs, sheet_id) == evs

\* DELETE FROM events WHERE sheet_id = ?
clear_events_for_sheet(evs, sheet_id) ==
    SelectSeq(evs, LAMBDA e : e.sheet_id # sheet_id)

\* INSERT INTO events
add_event(evs, event) == Append(evs, event)

\* The columns get_all_events selects: all of a stored row but sheet_id
Selected(e) ==
    [title |-> e.title, name |-> e.name, date |-> e.date, time |-> e.time,
     sheet_name |-> e.sheet_name, hospital |-> e.hospital, phone |-> e.phone,
     procedure |-> e.procedure, row_index |-> e.row_index,
     original_data |-> e.original_data]

\* The order of two texts of digits and separators of one layout
\* (YYYY-MM-DD, HH:MM)
TextKey(t) == ToInt(SelectSeq(t, LAMBDA c : c \in Digits))

\* ORDER BY date, time
Ordered(a, b) ==
    \/ TextKey(a.date) < TextKey(b.date)
    \/ a.date = b.date /\ TextKey(a.time) <= TextKey(b.time)

\* SELECT ... FROM events ORDER BY date, time: the results the query can
\* give, rows of equal date and time in any order
get_all_events(evs) ==
    {[k \in 1..Len(evs) |-> Selected(evs[p[k]])] :
        p \in {q \in [1..Len(evs) -> 1..Len(evs)] :
                  /\ \A i, j \in 1..Len(evs) : q[i] = q[j] => i = j
                  /\ \A i, j \in 1..Len(evs) :
                        i < j => Ordered(evs[q[i]], evs[q[j]])}}

----------------------------------------------------------------------------
(* What the variables hold while their handler is not running *)

ParseIdle == date_text = <<>> /\ parsed = NoDate /\ db_parsed = NoDate

RefreshIdle ==
    /\ sheet = NoSheet
    /\ mapping = NoMappings
    /\ sheet_hospital = <<>>
    /\ events = <<>>
    /\ prev_events = <<>>
    /\ runs = 0

TableIdle == fetched = <<>> /\ at_row = 0

NearIdle == near = None

PhoneIdle == phone_text = <<>> /\ phone_main = None /\ phone_db = None

\* No worker has read the events table yet
NotRead == [read |-> FALSE, rows |-> <<>>]

ReaderIdle == seen = NotRead

ApiIdle == workers = <<>> /\ sheets = {} /\ last_id = 0

ExcelIdle ==
    /\ filename = <<>>
    /\ workbook = <<>>
    /\ at_sheet = 0
    /\ columns = NoMappings
    /\ at_idx = 0
    /\ appointments = <<>>

parse_vars == <<date_text, parsed, db_parsed>>
phone_vars == <<phone_text, phone_main, phone_db>>
api_vars == <<workers, sheets, last_id>>
refresh_vars ==
    <<sheet, mapping, sheet_hospital, events, prev_events, runs>>
table_vars == <<fetched, at_row>>
excel_vars == <<filename, workbook, at_sheet, columns, at_idx, appointments>>

----------------------------------------------------------------------------
(* Parser runs: one text is drawn and handed to both parsers *)

\* main.py parse_date_time applied to the drawn text
ParseMain ==
    /\ pc = "parse"
    /\ parsed' = parse_date_time(date_text)
    /\ pc' = "parse_db"
    /\ UNCHANGED <<date_text, db_parsed, refresh_vars, table_vars, near,
                   excel_vars,
                   phone_vars, seen, api_vars>>

\* database.py parse_date_time applied to the drawn text
ParseDb ==
    /\ pc = "parse_db"
    /\ db_parsed' = db_parse_date_time(date_text)
    /\ pc' = "parsed"
    /\ UNCHANGED <<date_text, parsed, refresh_vars, table_vars, near,
                   excel_vars,
                   phone_vars, seen, api_vars>>

NextParse == ParseMain \/ ParseDb

----------------------------------------------------------------------------
(* Resolver runs: find_hospital_near_name on one row of a table *)

ResolveNear ==
    /\ pc = "near"
    /\ near' = find_hospital_near_name(fetched, at_row, <<>>)
    /\ pc' = "neared"
    /\ UNCHANGED <<parse_vars, refresh_vars, table_vars, excel_vars,
                   phone_vars, seen, api_vars>>

NextNear == ResolveNear

----------------------------------------------------------------------------
(* Phone runs: one text is drawn and handed to both extract_phone_number *)

\* main.py extract_phone_number applied to the drawn text
PhoneMain ==
    /\ pc = "phone"
    /\ phone_main' = extract_phone_number(phone_text)
    /\ pc' = "phone_db"
    /\ UNCHANGED <<parse_vars, refresh_vars, table_vars, near, excel_vars,
                   phone_text, phone_db, seen, api_vars>>

\* database.py extract_phone_number applied to the drawn text
PhoneDb ==
    /\ pc = "phone_db"
    /\ phone_db' = db_extract_phone_number(phone_text)
    /\ pc' = "phoned"
    /\ UNCHANGED <<parse_vars, refresh_vars, table_vars, near, excel_vars,
                   phone_text, phone_main, seen, api_vars>>

NextPhone == PhoneMain \/ PhoneDb

----------------------------------------------------------------------------
(* refresh_events_for_sheet, one step per database call or loop turn *)

\* b or a or c
SecondFirst(a, b, c) == IF Truthy(b) THEN b ELSE IF Truthy(a) THEN a ELSE c

\* a or b or c
FirstTruthy(a, b, c) == IF Truthy(a) THEN a ELSE IF Truthy(b) THEN b ELSE c

\* The row db_add_event inserts
EventOf(sh, hospital_name, extracted_data, row_idx, row) ==
    [sheet_id |-> sh.id,
     title |-> hospital_name \o <<"_">> \o extracted_data.name,
     name |-> extracted_data.name,
     date |-> extracted_data.date,
     time |-> extracted_data.time,
     sheet_name |-> sh.name,
     hospital |-> hospital_name,
     phone |-> extracted_data.phone,
     procedure |-> extracted_data.procedure,
     row_index |-> row_idx + 1,
     original_data |-> row]

\* A copy of the row that keeps the cells with a value only
NonEmptyCells(row) == SelectSeq(row, Truthy)

\* dict(row): a new row of the same keys and cells
dict(row) == SubSeq(row, 1, Len(row))

\* The event of row row_idx: hospital0 is the sheet-level hospital
RowEvent(data, row_idx, sh, hospital0, extracted_data) ==
    EventOf(sh,
            FirstTruthy(hospital0,
                        find_hospital_near_name(data, row_idx,
                                                extracted_data.name),
                        sh.name),
            extracted_data, row_idx, dict(RowAt(data, row_idx)))

\* The loop body that asks for a date only
RowStepNoName(evs, data, row_idx, sh, hospital0, extracted_data) ==
    IF RowAt(data, row_idx) # <<>> /\ Truthy(extracted_data.date)
    THEN add_event(evs, RowEvent(data, row_idx, sh, hospital0, extracted_data))
    ELSE evs

\* The loop body that asks for a name only
RowStepNoDate(evs, data, row_idx, sh, hospital0, extracted_data) ==
    IF RowAt(data, row_idx) # <<>> /\ Truthy(extracted_data.name)
    THEN add_event(evs, RowEvent(data, row_idx, sh, hospital0, extracted_data))
    ELSE evs

\* The loop body on row row_idx: an event is added when the row is not
\* empty and has a name and a date
RowStep(evs, data, row_idx, sh, hospital0, extracted_data) ==
    IF /\ RowAt(data, row_idx) # <<>>
       /\ Truthy(extracted_data.name)
       /\ Truthy(extracted_data.date)
    THEN add_event(evs, RowEvent(data, row_idx, sh, hospital0, extracted_data))
    ELSE evs

\* clear_events_for_sheet(db_sheet_id)
ClearEvents ==
    /\ pc = "clear"
    /\ prev_events' = events
    /\ events' = clear_events_for_sheet(events, sheet.id)
    /\ pc' = "fetch"
    /\ UNCHANGED <<parse_vars, sheet, mapping, sheet_hospital, runs,
                   table_vars, near, excel_vars,
                   phone_vars, seen, api_vars>>

\* fetch_sheet_data, find_column_mappings, extract_hospital_from_data
Analyze ==
    /\ pc = "fetch"
    /\ IF fetched = <<>>
       THEN /\ pc' = "done"
            /\ runs' = runs + 1
            /\ UNCHANGED <<mapping, sheet_hospital, at_row>>
       ELSE /\ mapping' = find_column_mappings(fetched)
            /\ sheet_hospital' = extract_hospital_from_data(sheet.name, fetched)
            /\ at_row' = 0
            /\ pc' = "rows"
            /\ UNCHANGED runs
    /\ UNCHANGED <<parse_vars, sheet, events, prev_events, fetched, near,
                   excel_vars,
                   phone_vars, seen, api_vars>>

\* One turn of `for row_idx, row in enumerate(data)`
ProcessRow ==
    /\ pc = "rows"
    /\ at_row < Len(fetched)
    /\ events' =
          RowStep(events, fetched, at_row, sheet, sheet_hospital,
                  extract_meaningful_data(RowAt(fetched, at_row), mapping))
    /\ at_row' = at_row + 1
    /\ UNCHANGED <<pc, parse_vars, sheet, mapping, sheet_hospital,
                   prev_events, runs, fetched, near, excel_vars,
                   phone_vars, seen, api_vars>>

\* The loop is over and the refresh returns
Finish ==
    /\ pc = "rows"
    /\ at_row = Len(fetched)
    /\ pc' = "done"
    /\ runs' = runs + 1
    /\ UNCHANGED <<parse_vars, sheet, mapping, sheet_hospital, events,
                   prev_events, table_vars, near, excel_vars,
                   phone_vars, seen, api_vars>>

MaxRuns == 2

\* The sheet is refreshed again (GET /api/events), the table unchanged
RefreshAgain ==
    /\ pc = "done"
    /\ runs < MaxRuns
    /\ pc' = "clear"
    /\ UNCHANGED <<parse_vars, refresh_vars, table_vars, near, excel_vars,
                   phone_vars, seen, api_vars>>

\* events = db_get_events() of GET /api/events in another worker, whose
\* own refresh is over, at any point of this worker's refresh: the
\* workers share the database file and every statement is committed
\* by itself
ReadEvents ==
    /\ pc \in {"clear", "fetch", "rows", "done"}
    /\ \E result \in get_all_events(events) :
          seen' = [read |-> TRUE, rows |-> result]
    /\ UNCHANGED <<pc, parse_vars, refresh_vars, table_vars, near, excel_vars,
                   phone_vars, api_vars>>

\* fetch_sheet_data raises, or returns no rows, after the clear: the
\* handler catches the exception, or returns
FetchFails ==
    /\ pc = "fetch"
    /\ pc' = "failed"
    /\ UNCHANGED <<parse_vars, refresh_vars, table_vars, near, excel_vars,
                   phone_vars, seen, api_vars>>

\* An exception in the loop body (the insert fails) ends the loop
RowFails ==
    /\ pc = "rows"
    /\ at_row < Len(fetched)
    /\ pc' = "failed"
    /\ UNCHANGED <<parse_vars, refresh_vars, table_vars, near, excel_vars,
                   phone_vars, seen, api_vars>>

\* The worker is silent for `timeout` seconds and is stopped
WorkerTimeout ==
    /\ pc \in {"fetch", "rows"}
    /\ pc' = "killed"
    /\ UNCHANGED <<parse_vars, refresh_vars, table_vars, near, excel_vars,
                   phone_vars, seen, api_vars>>

\* The refresh of one sheet with its failures, and a reader beside it
NextStore ==
    \/ ClearEvents \/ Analyze \/ ProcessRow \/ Finish \/ RefreshAgain
    \/ ReadEvents \/ FetchFails \/ RowFails \/ WorkerTimeout

----------------------------------------------------------------------------
(* The API handlers (src/main.py) in the worker processes of gunicorn: a
   handler runs to its end inside its worker, the statements of different
   workers on the one database file interleave *)

Workers == {"w1", "w2"}

SheetIds == {1, 2}

ApiSheetName == <<"S", "1">>

\* get_sheet_by_id(db_sheet_id) of a sheet that exists
ApiSheet(db_sheet_id) == [id |-> db_sheet_id, name |-> ApiSheetName]

\* A worker between requests, user_credentials = None
IdleWorker ==
    [creds |-> FALSE, pc |-> "idle", op |-> "none", todo |-> <<>>,
     sheet |-> 0, row |-> 0, reply |-> "none", result |-> <<>>]

\* The handler of worker w answers
Respond(w, op, reply, result) ==
    [workers EXCEPT ![w] = [@ EXCEPT !.pc = "idle", !.op = op,
                                     !.reply = reply, !.result = result]]

\* The handler of worker w goes on to refresh the sheets of todo
StartRefresh(w, op, todo) ==
    [workers EXCEPT ![w] = [@ EXCEPT !.pc = "lookup", !.op = op, !.todo = todo,
                                     !.reply = "none", !.result = <<>>]]

\* SELECT ... FROM sheets ORDER BY created_at DESC: the ids in an order
\* the query can give, sheets of one second in any order
get_all_sheets(ids) ==
    {q \in [1..Cardinality(ids) -> ids] :
        \A i, j \in 1..Cardinality(ids) : q[i] = q[j] => i = j}

\* What no API handler assigns
ApiFrame ==
    UNCHANGED <<pc, parse_vars, sheet, mapping, sheet_hospital, prev_events,
                runs, table_vars, near, excel_vars, phone_vars, seen>>

\* GET /auth/callback: user_credentials = flow.credentials
AuthCallback(w) ==
    /\ ApiFrame
    /\ workers[w].pc = "idle"
    /\ ~workers[w].creds
    /\ workers' = [workers EXCEPT ![w] = [@ EXCEPT !.creds = TRUE]]
    /\ UNCHANGED <<sheets, last_id, events>>

\* GET /auth/logout: user_credentials = None
Logout(w) ==
    /\ ApiFrame
    /\ workers[w].pc = "idle"
    /\ workers[w].creds
    /\ workers' = [workers EXCEPT ![w] = [@ EXCEPT !.creds = FALSE]]
    /\ UNCHANGED <<sheets, last_id, events>>

\* POST /api/sheets that stores the sheet without asking for credentials
AddSheetUnguarded(w) ==
    /\ ApiFrame
    /\ workers[w].pc = "idle"
    /\ last_id + 1 \in SheetIds
    /\ sheets' = sheets \cup {last_id + 1}
    /\ last_id' = last_id + 1
    /\ workers' = Respond(w, "add", "ok", <<>>)
    /\ UNCHANGED events

\* POST /api/sheets: 401 without credentials; else the sheet is stored
\* under the next id and refreshed
AddSheet(w) ==
    /\ ApiFrame
    /\ workers[w].pc = "idle"
    /\ IF ~workers[w].creds
       THEN /\ workers' = Respond(w, "add", "401", <<>>)
            /\ UNCHANGED <<sheets, last_id>>
       ELSE /\ last_id + 1 \in SheetIds
            /\ sheets' = sheets \cup {last_id + 1}
            /\ last_id' = last_id + 1
            /\ workers' = StartRefresh(w, "add", <<last_id + 1>>)
    /\ UNCHANGED events

\* DELETE /api/sheets/{sheet_id}: delete_sheet removes the events and
\* the sheet in one transaction, or returns False for an unknown id
DeleteSheet(w, sheet_id) ==
    /\ ApiFrame
    /\ workers[w].pc = "idle"
    /\ IF sheet_id \in sheets
       THEN /\ events' = clear_events_for_sheet(events, sheet_id)
            /\ sheets' = sheets \ {sheet_id}
            /\ workers' = Respond(w, "delete", "true", <<>>)
       ELSE /\ workers' = Respond(w, "delete", "false", <<>>)
            /\ UNCHANGED <<events, sheets>>
    /\ UNCHANGED last_id

\* GET /api/events: [] without credentials; else refresh_all_events
\* reads the sheets and refreshes them one by one
GetEvents(w) ==
    /\ ApiFrame
    /\ workers[w].pc = "idle"
    /\ IF ~workers[w].creds
       THEN workers' = Respond(w, "events", "empty", <<>>)
       ELSE \E todo \in get_all_sheets(sheets) :
                workers' = StartRefresh(w, "events", todo)
    /\ UNCHANGED <<sheets, last_id, events>>

\* The next sheet of the list: refresh_events_for_sheet returns when
\* user_credentials is None or get_sheet_by_id finds no sheet; after the
\* last one get_events reads the events and add_sheet answers
NextSheet(w) ==
    /\ ApiFrame
    /\ workers[w].pc = "lookup"
    /\ workers' =
          IF workers[w].todo = <<>>
          THEN IF workers[w].op = "events"
               THEN [workers EXCEPT ![w] = [@ EXCEPT !.pc = "read"]]
               ELSE Respond(w, workers[w].op, "ok", <<>>)
          ELSE [workers EXCEPT ![w] =
                   [@ EXCEPT !.todo = Tail(@),
                             !.sheet = Head(workers[w].todo),
                             !.pc = IF /\ workers[w].creds
                                       /\ Head(workers[w].todo) \in sheets
                                    THEN "clear" ELSE "lookup"]]
    /\ UNCHANGED <<sheets, last_id, events>>

\* clear_events_for_sheet, then fetch_sheet_data
ClearSheet(w) ==
    /\ ApiFrame
    /\ workers[w].pc = "clear"
    /\ events' = clear_events_for_sheet(events, workers[w].sheet)
    /\ workers' = [workers EXCEPT ![w] = [@ EXCEPT !.pc = "rows", !.row = 0]]
    /\ UNCHANGED <<sheets, last_id>>

\* One turn of the loop over the rows: add_event commits the row's event
InsertRow(w) ==
    /\ ApiFrame
    /\ workers[w].pc = "rows"
    /\ workers[w].row < Len(fetched)
    /\ events' =
          RowStep(events, fetched, workers[w].row, ApiSheet(workers[w].sheet),
                  extract_hospital_from_data(ApiSheetName, fetched),
                  extract_meaningful_data(RowAt(fetched, workers[w].row),
                                          find_column_mappings(fetched)))
    /\ workers' = [workers EXCEPT ![w] = [@ EXCEPT !.row = @ + 1]]
    /\ UNCHANGED <<sheets, last_id>>

\* The loop is over and refresh_events_for_sheet returns
EndSheet(w) ==
    /\ ApiFrame
    /\ workers[w].pc = "rows"
    /\ workers[w].row = Len(fetched)
    /\ workers' = [workers EXCEPT ![w] =
                      [@ EXCEPT !.pc = "lookup", !.sheet = 0, !.row = 0]]
    /\ UNCHANGED <<sheets, last_id, events>>

\* events = db_get_events() at the end of get_events
ReadAll(w) ==
    /\ ApiFrame
    /\ workers[w].pc = "read"
    /\ \E result \in get_all_events(events) :
          workers' = Respond(w, "events", "ok", result)
    /\ UNCHANGED <<sheets, last_id, events>>

NextApi ==
    \E w \in Workers :
        \/ AuthCallback(w) \/ Logout(w) \/ AddSheet(w)
        \/ \E sheet_id \in SheetIds : DeleteSheet(w, sheet_id)
        \/ GetEvents(w) \/ NextSheet(w) \/ ClearSheet(w) \/ InsertRow(w)
        \/ EndSheet(w) \/ ReadAll(w)

----------------------------------------------------------------------------
(* process_excel_file, one step per sheet opened or row read *)

\* The next sheet is read and its header row looked for; an empty sheet
\* or one without header row is passed over
OpenSheet ==
    /\ pc = "xl_sheet"
    /\ at_sheet <= Len(workbook)
    /\ IF workbook[at_sheet] = <<>>
           \/ find_header_row(workbook[at_sheet]).header_row = NoHeader
       THEN /\ at_sheet' = at_sheet + 1
            /\ UNCHANGED <<pc, columns, at_idx>>
       ELSE /\ columns' = find_header_row(workbook[at_sheet]).columns_mapping
            /\ at_idx' = find_header_row(workbook[at_sheet]).header_row + 1
            /\ pc' = "xl_rows"
            /\ UNCHANGED at_sheet
    /\ UNCHANGED <<parse_vars, refresh_vars, table_vars, near, filename,
                   workbook, appointments,
                   phone_vars, seen, api_vars>>

\* One turn of `for idx in range(header_row + 1, len(df))`
ReadRow ==
    /\ pc = "xl_rows"
    /\ at_idx < Len(workbook[at_sheet])
    /\ appointments' =
          XlStep(appointments, RowAt(workbook[at_sheet], at_idx), columns,
                 extract_hospital_name_from_filename(filename), at_sheet, at_idx)
    /\ at_idx' = at_idx + 1
    /\ UNCHANGED <<pc, parse_vars, refresh_vars, table_vars, near, filename,
                   workbook, at_sheet, columns,
                   phone_vars, seen, api_vars>>

\* The rows of the sheet are through
CloseSheet ==
    /\ pc = "xl_rows"
    /\ at_idx = Len(workbook[at_sheet])
    /\ at_sheet' = at_sheet + 1
    /\ pc' = "xl_sheet"
    /\ UNCHANGED <<parse_vars, refresh_vars, table_vars, near, filename,
                   workbook, columns, at_idx, appointments,
                   phone_vars, seen, api_vars>>

\* return appointments
ReturnAppointments ==
    /\ pc = "xl_sheet"
    /\ at_sheet > Len(workbook)
    /\ pc' = "xl_done"
    /\ UNCHANGED <<parse_vars, refresh_vars, table_vars, near, excel_vars,
                   phone_vars, seen, api_vars>>

Next ==
    \/ ClearEvents \/ Analyze \/ ProcessRow \/ Finish \/ RefreshAgain
    \/ OpenSheet \/ ReadRow \/ CloseSheet \/ ReturnAppointments

----------------------------------------------------------------------------
(* Cells and tables the runs draw from *)

Hong == <<"hong", "gil", "dong">>                \* a name
Kim == <<"gim", "cheol", "su">>
Lee == <<"yi", "yeong", "hui">>
Blank == <<" ">>
Dash == <<"-">>
NA == <<"N", "/", "A">>
HName == <<"seong", "ham">>                      \* header cells
HPhone == <<"yeon", "rak", "cheo">>
HDate == <<"ye", "yak", "il", "si">>             \* general tier
HDay == <<"nal", "jja">>                         \* general tier
HConfirmed == <<"hwak", "jeong", "il", "si">>    \* priority tier
HSurgery == <<"su", "sul", "il">>                \* priority tier
DateTime1 == <<"2", "5", "-", "0", "8", "-", "0", "5", " ", "1", "0", ":", "0", "0">>
DateOnly2 == <<"2", "0", "2", "5", "-", "0", "8", "-", "0", "6">>
TBD == <<"T", "B", "D">>
Feb30 == <<"2", "5", "-", "0", "2", "-", "3", "0">>
Serial1 == <<"4", "5", "0", "0", "0">>
Phone1 ==
    <<"0", "1", "0", "-", "1", "2", "3", "4", "-", "5", "6", "7", "8">>
Phone2 == <<"0", "1", "0", "1", "2", "3", "4", "5", "6", "7", "8">>
Goldskin == <<"hwang", "geum", "pi", "bu", "gwa">>     \* a general keyword
Goldclinic == <<"hwang", "geum", "keul", "ri", "nik">> \* a resolver-only keyword
Goldhouse == Goldskin \o <<"ui", "won">>               \* longer than 5
Memo == <<"m", "e", "m", "o">>

SheetNames == {<<"S", "1">>, Cellnine}

Sheets == {[id |-> 1, name |-> n] : n \in SheetNames}

HeaderRow == <<HName, HDate, HPhone>>

\* Data rows under HeaderRow: complete, without phone, unparseable date,
\* blank name in a short row, empty row, no such day (PlaceholderRows has
\* the row without a name)
DataRows ==
    {<<Hong, DateTime1, Phone1>>,
     <<Kim, DateOnly2, <<>>>>,
     <<Lee, TBD, <<>>>>,
     <<Blank, DateOnly2>>,
     <<>>,
     <<Lee, Feb30, Dash>>}

MaxRows == 2

RECURSIVE SeqsUpTo(_, _)
SeqsUpTo(S, n) ==
    IF n = 0 THEN {<<>>}
    ELSE LET shorter == SeqsUpTo(S, n - 1)
         IN  shorter \cup {Append(q, x) : q \in shorter, x \in S}

\* What stands above the header: nothing, a facility line and the marker
\* line, a note and the marker line, a facility line only the row resolver
\* knows
Preambles ==
    {<<>>,
     << <<Goldskin>>, <<Sentinel>> >>,
     << <<Memo>>, <<Sentinel>> >>,
     << <<Goldclinic>> >>}

RowTables ==
    {<<>>} \cup
    {pre \o <<HeaderRow>> \o rows :
        pre \in Preambles, rows \in SeqsUpTo(DataRows, MaxRows)}

\* Two blocks, each under its own facility line and marker line
AnchorLabels == {Newb, Goldskin, Goldclinic, Memo}

AnchorRows == {<<Hong, DateTime1, Phone1>>, <<Kim, DateOnly2, <<>>>>}

Block(label, row) == << <<label>>, <<Sentinel>>, HeaderRow, row >>

AnchorTables ==
    {Block(l1, r1) \o Block(l2, r2) :
        l1 \in AnchorLabels, l2 \in AnchorLabels,
        r1 \in AnchorRows, r2 \in AnchorRows}

\* Two date headers, one of each tier, in columns 2 and 3: `first` stands
\* in the first row and column cf, `second` in the other column, of the
\* same row or (split) of the next
PriorityHeaders == {HConfirmed, HSurgery}
GeneralHeaders == {HDate, HDay}

HeaderPairs ==
    (PriorityHeaders \X GeneralHeaders) \cup (GeneralHeaders \X PriorityHeaders)

DatesRow(name) == <<name, DateTime1, DateOnly2>>

HeaderTable(first, second, cf, split) ==
    IF split
    THEN << [c \in 1..3 |-> IF c = 1 THEN HName ELSE IF c = cf THEN first
                            ELSE <<>>],
            [c \in 1..3 |-> IF c = 1 THEN Hong ELSE IF c = cf THEN DateTime1
                            ELSE second],
            DatesRow(Kim), DatesRow(Lee) >>
    ELSE << [c \in 1..3 |-> IF c = 1 THEN HName ELSE IF c = cf THEN first
                            ELSE second],
            DatesRow(Kim), DatesRow(Lee) >>

HeaderTables ==
    {HeaderTable(p[1], p[2], cf, split) :
        p \in HeaderPairs, cf \in {2, 3}, split \in BOOLEAN}

\* A name header over a column of placeholders, under up to two lines
AboveCells == {Newb, Sentinel, Hong, <<>>}

AboveRows == {<<c>> : c \in AboveCells}

PlaceholderRows ==
    << <<<<>>, DateTime1>>, <<Dash, DateOnly2>>, <<NA, DateTime1>>,
       <<Blank, DateOnly2>> >>

DensityTables ==
    {above \o << <<HName, HDate>> >> \o PlaceholderRows :
        above \in SeqsUpTo(AboveRows, 2)}

\* Two name headers, in columns 1 and 3, over HitRows rows that carry a
\* name in either column, in both or in none
HClient == <<"go", "gaek", "myeong">>

HitRows == 3

TwoHitRows == {<<a, DateOnly2, c>> : a \in {Hong, <<>>}, c \in {Kim, <<>>}}

TwoHitTables ==
    {<< <<HName, HDate, HClient>> >> \o rows :
        rows \in [1..HitRows -> TwoHitRows]}

\* A header cell 이름 alone over a row with a name, a phone and a date
WeekdayDate ==
    <<"2", "5", "-", "0", "8", "-", "0", "5", "(", "hwa", ")", " ", "1", "0",
      ":", "0", "0">>

ScenarioTable == << <<<<"yi", "reum">>>>, <<Hong, Phone1, WeekdayDate>> >>

\* Rows whose phone stands outside the phone column: 담당: 010-9999-8888
\* in a fourth cell beside an empty phone cell, beside a note and before
\* another number; a row without any number; a number without hyphens
Contact ==
    <<"dam", "dang", ":", " ", "0", "1", "0", "-", "9", "9", "9", "9", "-",
      "8", "8", "8", "8">>

Contact2 == <<"0", "3", "1", "-", "5", "5", "5", "-", "1", "2", "3", "4", " ">> \o Phone1

PhoneRows ==
    {<<Hong, DateTime1, <<>>, Contact>>,
     <<Kim, DateOnly2, Memo, Contact2, Contact>>,
     <<Lee, DateOnly2>>,
     <<Hong, DateOnly2, Phone2, <<>>, Contact>>}

PhoneTables ==
    {<<h>> \o rows :
        h \in {HeaderRow, <<HName, HDate>>},
        rows \in SeqsUpTo(PhoneRows, MaxRows) \ {<<>>}}

Tables ==
    RowTables \cup AnchorTables \cup HeaderTables \cup DensityTables
        \cup {ScenarioTable} \cup PhoneTables \cup TwoHitTables

\* The sheets of a workbook, as pandas reads them
RowWidth == 3

Rect(table) ==
    [i \in 1..Len(table) |->
        [c \in 1..RowWidth |->
            IF c <= Len(table[i]) /\ table[i][c] # <<>> THEN table[i][c]
            ELSE None]]

ExcelRows ==
    {<<Hong, DateTime1, Phone1>>,
     <<Kim, Serial1, Phone2>>,
     <<Lee, TBD, Memo>>,
     <<Blank, DateOnly2>>,
     <<<<>>, DateTime1>>,
     <<Kim, Feb30>>}

ExcelHeader == <<HName, HConfirmed, HPhone>>

ExcelTables ==
    {Rect(pre \o <<ExcelHeader>> \o rows) :
        pre \in {<<>>, << <<Goldskin>> >>}, rows \in SeqsUpTo(ExcelRows, MaxRows)}

\* A first sheet that is empty, has no header row, or has rows
FirstSheets ==
    {<<>>, Rect(<< <<Memo>> >>), Rect(<<ExcelHeader, <<Hong, DateOnly2>>>>)}

Workbooks ==
    {<<t>> : t \in ExcelTables}
        \cup {<<f, t>> : f \in FirstSheets, t \in ExcelTables}

Filenames ==
    {<<"a", ".", "x", "l", "s", "x">>,
     <<"sel", "na", "in", ".", "x", "l", "s", "x">>}

\* The rows of the resolver runs: the record stands in row NearRow, the
\* marker lines at the distances of `anchors` above it, each under the
\* line label[d]; `after` follows the record
NearRow == 13

AnchorDistances == {1, 3, 8, 12}

NearLabels == {Newb, Goldskin, Goldhouse, Memo, <<>>}

NearTable(d1, l1, d2, l2, after) ==
    [i \in 1..(NearRow + 1) |->
        IF i - 1 = NearRow THEN <<Hong, DateTime1>>
        ELSE IF NearRow - (i - 1) \in {d1, d2} THEN <<Sentinel>>
        ELSE IF NearRow - (i - 1) = d1 + 1 THEN <<l1>>
        ELSE IF NearRow - (i - 1) = d2 + 1 THEN <<l2>>
        ELSE <<Memo>>] \o after

NearTables ==
    {NearTable(d1, l1, d2, l2, after) :
        d1 \in AnchorDistances, d2 \in AnchorDistances,
        l1 \in NearLabels, l2 \in NearLabels,
        after \in {<<>>, << <<Goldclinic>> >>}}

\* Short tables for the resolver: empty rows, rows of different widths,
\* a marker line in any row, the first one included
MaxEdge == 3

EdgeRows ==
    {<<>>, <<Sentinel>>, <<Goldskin>>, <<Memo, Goldhouse>>,
     <<<<>>, Hong, Phone1>>}

EdgeTables == SeqsUpTo(EdgeRows, MaxEdge) \ {<<>>}

\* The row above the marker line holds two cells: a synonym, a general
\* keyword, a text with a hyphen longer than 10, or a note; the record is
\* in the last row
Stella == <<"seu", "tel", "la">>

PrecedenceCells == {Stella, Goldskin, Phone1, Memo}

PrecedenceTables ==
    {<< <<c1, c2>>, <<Sentinel>>, <<Hong, DateTime1>> >> :
        c1 \in PrecedenceCells, c2 \in PrecedenceCells}

\* Tables without marker line: the record with a facility line `before`
\* rows above it (none for 0) and a synonym line `after` rows below it
\* (none for 0), notes in between; four rows follow the record
BackupOffsets == {0, 10, 11}

BackupTable(before, after) ==
    [i \in 1..(before + 5) |->
        IF i = before + 1 THEN <<Hong, DateTime1>>
        ELSE IF i = 1 THEN <<Goldhouse>>
        ELSE IF after > 0 /\ i = before + 1 + after THEN <<Memo, Cellnine>>
        ELSE <<Memo>>]

BackupTables ==
    {BackupTable(before, after) : before \in BackupOffsets, after \in 0..4}

\* The texts of the phone runs: a number with or without hyphens, or
\* none, after a word and before a word or another digit
PhonePrefixes == {<<>>, <<"t", "e", "l", " ">>, <<"dam", "dang", ":", " ">>}

PhoneCores ==
    {<<>>,
     Phone1,
     Phone2,
     <<"0", "3", "1", "-", "5", "5", "5", "-", "1", "2", "3", "4">>,
     <<"0", "2", "1", "2", "3", "4", "5", "6", "7", "8">>,
     <<"0", "2", "0", "1", "2", "3", "4", "5", "6", "7", "8">>,
     <<"0", "1", "0", "1", "2", "3", "4", "5", "6", "7", "8", "9">>,
     <<"0", "1", "0", " ", "1", "2", "3", "4", " ", "5", "6", "7", "8">>,
     <<"1", "2", "3", "4", "5">>}

PhoneSuffixes == {<<>>, <<" ", "e", "x", "t", " ", "2">>, <<" ", "m", "e", "m", "o">>}

PhoneTexts ==
    {None} \cup
    {pre \o core \o suf :
        pre \in PhonePrefixes, core \in PhoneCores, suf \in PhoneSuffixes}

----------------------------------------------------------------------------
(* Initial states and specifications *)

InitParse ==
    /\ pc = "parse"
    /\ date_text \in DateTexts
    /\ parsed = NoDate
    /\ db_parsed = NoDate
    /\ RefreshIdle /\ TableIdle /\ NearIdle /\ ExcelIdle
    /\ PhoneIdle /\ ReaderIdle /\ ApiIdle

InitNear ==
    /\ pc = "near"
    /\ \/ fetched \in NearTables /\ at_row = NearRow
       \/ fetched \in EdgeTables /\ at_row \in 0..(Len(fetched) - 1)
       \/ fetched \in PrecedenceTables /\ at_row = Len(fetched) - 1
       \/ fetched \in BackupTables /\ at_row = Len(fetched) - 5
    /\ near = None
    /\ ParseIdle /\ RefreshIdle /\ ExcelIdle
    /\ PhoneIdle /\ ReaderIdle /\ ApiIdle

InitRefresh ==
    /\ pc = "clear"
    /\ fetched \in Tables
    /\ sheet \in Sheets
    /\ mapping = NoMappings
    /\ sheet_hospital = <<>>
    /\ at_row = 0
    /\ events = <<>>
    /\ prev_events = <<>>
    /\ runs = 0
    /\ ParseIdle /\ NearIdle /\ ExcelIdle
    /\ PhoneIdle /\ ReaderIdle /\ ApiIdle

\* The sheet of the store runs has a header row and up to MaxRows rows
InitStore ==
    /\ InitRefresh
    /\ fetched \in RowTables

InitExcel ==
    /\ pc = "xl_sheet"
    /\ filename \in Filenames
    /\ workbook \in Workbooks
    /\ at_sheet = 1
    /\ columns = NoMappings
    /\ at_idx = 0
    /\ appointments = <<>>
    /\ ParseIdle /\ RefreshIdle /\ TableIdle /\ NearIdle
    /\ PhoneIdle /\ ReaderIdle /\ ApiIdle

InitPhone ==
    /\ pc = "phone"
    /\ phone_text \in PhoneTexts
    /\ phone_main = None
    /\ phone_db = None
    /\ ParseIdle /\ RefreshIdle /\ TableIdle /\ NearIdle /\ ExcelIdle
    /\ ReaderIdle /\ ApiIdle

Init == InitRefresh \/ InitExcel

\* The application: sheets are refreshed and workbooks imported
Spec == Init /\ [][Next]_vars

\* One sheet refreshed while another worker reads, failures included
SpecStore == InitStore /\ [][NextStore]_vars

\* The workers serve the API on one database; every sheet has the table
\* below
ApiTable == <<HeaderRow, <<Hong, DateTime1, Phone1>>>>

InitApi ==
    /\ pc = "api"
    /\ workers = [w \in Workers |-> IdleWorker]
    /\ sheets = {}
    /\ last_id = 0
    /\ fetched = ApiTable
    /\ at_row = 0
    /\ ParseIdle /\ RefreshIdle /\ NearIdle /\ ExcelIdle
    /\ PhoneIdle /\ ReaderIdle

SpecApi == InitApi /\ [][NextApi]_vars

\* The two parse_date_time on one text
SpecParse == InitParse /\ [][NextParse]_vars

\* find_hospital_near_name on one row
SpecNear == InitNear /\ [][NextNear]_vars

\* The two extract_phone_number on one text
SpecPhone == InitPhone /\ [][NextPhone]_vars

----------------------------------------------------------------------------
(* Properties of the refresh, the import, the parsers and the resolver *)

\* The refresh has analysed a table that is not empty and is in or past
\* the loop over its rows
Analysed == pc \in {"rows", "done"} /\ fetched # <<>>

\* The refresh of a table that is not empty has returned
Refreshed == pc = "done" /\ fetched # <<>>

\* The cell of a row under a column; empty when the row has no such cell
CellUnder(row, key) ==
    IF key # NoKey /\ key <= Len(row) THEN row[key] ELSE <<>>

\* The text parses to a date
Parses(cell) == cell # <<>> /\ parse_date_time(cell).date # None

\* The row indices (from 1) of the records, in the order of the events table
EventRows == [k \in 1..Len(events) |-> events[k].row_index]

\* The rows among the first n that satisfy Q, in table order
RowsUpTo(n, Q(_)) == SelectSeq([i \in 1..n |-> i], LAMBDA i : Q(fetched[i]))

NameAsStated(row) ==
    /\ CellUnder(row, mapping.name) # <<>>
    /\ Parses(CellUnder(row, mapping.date))

NameTrimmed(row) ==
    /\ Strip(CellUnder(row, mapping.name)) # <<>>
    /\ Parses(CellUnder(row, mapping.date))

\* YYYY-MM-DD of a day of the calendar
IsIsoDate(t) ==
    /\ Len(t) = 10
    /\ t[5] = "-" /\ t[8] = "-"
    /\ \A k \in {1, 2, 3, 4, 6, 7, 9, 10} : IsDigit(t[k])
    /\ ValidDate(ToInt(SubSeq(t, 1, 4)), ToInt(SubSeq(t, 6, 7)),
                 ToInt(SubSeq(t, 9, 10)))

Emitted ==
    {events[k] : k \in DOMAIN events}
        \cup {appointments[k] : k \in DOMAIN appointments}

C2_NameAndDate ==
    \A e \in Emitted : e.name # <<>> /\ e.name # None /\ IsIsoDate(e.date)

C2_Witness ==
    /\ pc = "done"
    /\ \E i \in DOMAIN fetched : CellUnder(fetched[i], mapping.date) = Feb30
    /\ Len(events) >= 1

\* C3 as stated: the records are exactly the rows, in table order, whose
\* cell under the Name column is not empty and whose cell under the Date
\* column parses.
C3_AsStated == Refreshed => EventRows = RowsUpTo(Len(fetched), NameAsStated)

\* C3: the records are exactly the rows, in table order, whose cell under
\* the Name column is not empty once its blanks are trimmed and whose cell
\* under the Date column parses; each such row has one record.
C3_Trimmed == Refreshed => EventRows = RowsUpTo(Len(fetched), NameTrimmed)

C3_Witness ==
    /\ pc = "done"
    /\ Len(events) >= 1
    /\ \E i \in DOMAIN fetched :
          NameAsStated(fetched[i]) /\ ~NameTrimmed(fetched[i])
    /\ \E k \in DOMAIN events : events[k].phone = <<>> /\ events[k].procedure = <<>>

\* The row has a name, and a date cell that no step of the parser takes
Unparsed(row) ==
    /\ Strip(CellUnder(row, mapping.name)) # <<>>
    /\ CellUnder(row, mapping.date) # <<>>
    /\ parse_date_time(CellUnder(row, mapping.date)).date = None

HasRecord(i) == \E k \in DOMAIN events : events[k].row_index = i

\* C4: a row with a name whose date cell cannot be parsed (as "TBD") has
\* no record, the parser returns (None, None) for the cell, and every row
\* after it that has a name and a date that parses has its record.
C4_Dropped ==
    Refreshed =>
        \A i \in 1..Len(fetched) :
            Unparsed(fetched[i]) =>
                /\ parse_date_time(CellUnder(fetched[i], mapping.date)) = NoDate
                /\ ~HasRecord(i)
                /\ \A j \in (i + 1)..Len(fetched) :
                      NameTrimmed(fetched[j]) => HasRecord(j)

C4_Witness ==
    /\ pc = "done"
    /\ \E i \in DOMAIN fetched :
          /\ Unparsed(fetched[i])
          /\ CellUnder(fetched[i], mapping.date) = TBD
          /\ ~HasRecord(i)
          /\ \E j \in (i + 1)..Len(fetched) : HasRecord(j)

\* The header cells of the two tiers, by their keywords
HeaderText(cell) == Strip(Lower(cell))

IsPriorityHeader(cell) ==
    /\ ContainsAny(HeaderText(cell), DatePriorityKeywords)
    /\ ~ContainsAny(HeaderText(cell), NameKeywords \cup PhoneKeywords)

IsGeneralHeader(cell) ==
    /\ ContainsAny(HeaderText(cell), DateGeneralKeywords)
    /\ ~ContainsAny(HeaderText(cell),
                    NameKeywords \cup PhoneKeywords \cup DatePriorityKeywords)

IsNameHeader(cell) == ContainsAny(HeaderText(cell), NameKeywords)

\* Some of the DensityWindow rows after row i (from 1) holds, under column
\* c, a value that is no placeholder
HasDataBeneath(i, c) ==
    \E j \in (i + 1)..Min(i + DensityWindow, Len(fetched)) :
        Strip(CellUnder(fetched[j], c)) \notin Placeholders

\* The columns with a header cell of the kind P among the first ScanRows
\* rows, and data beneath it
HeaderColumns(P(_)) ==
    {c \in 1..RowWidth :
        \E i \in 1..Min(ScanRows, Len(fetched)) :
            P(CellUnder(fetched[i], c)) /\ HasDataBeneath(i, c)}

\* C5: when one column has a priority-tier date header and another column
\* a general-tier date header among the first 15 rows, both with data
\* beneath, the Date role is bound to the priority-tier column, in either
\* order of the columns and of the rows.
C5_PriorityWins ==
    Analysed =>
        \A p \in HeaderColumns(IsPriorityHeader) :
            /\ HeaderColumns(IsPriorityHeader) = {p}
            /\ HeaderColumns(IsGeneralHeader) \ {p} # {}
            => mapping.date = p

C5_Witness ==
    /\ pc = "done"
    /\ fetched = HeaderTable(HDate, HConfirmed, 2, TRUE)
    /\ mapping.date = 3
    /\ Len(events) = 2

\* C6: a column whose header cell holds a Name keyword and whose 20 rows
\* beneath hold only empty or placeholder values is not bound to the Name
\* role, by the keywords or by the pattern of the names.
C6_DensityRejection ==
    Analysed =>
        \A i \in DOMAIN fetched :
            \A c \in 1..Len(fetched[i]) :
                IsNameHeader(fetched[i][c]) /\ ~HasDataBeneath(i, c)
                    => mapping.name # c

\* The table of C6's case: a facility line and the marker line above the
\* header, placeholders only beneath it; the pattern of the names binds
\* the column and the placeholders become records
C6_Witness ==
    /\ pc = "done"
    /\ fetched = << <<Newb>>, <<Sentinel>>, <<HName, HDate>> >> \o PlaceholderRows
    /\ mapping.name = 1
    /\ \E k \in DOMAIN events : events[k].name = Dash
    /\ \E k \in DOMAIN events : events[k].name = NA

\* The marker rows (from 0) among rows max(0, r - NearWindow)..r
AnchorsAbove(data, r) ==
    {i \in Max(0, r - NearWindow)..r :
        i < Len(data) /\ IsAnchorRow(RowAt(data, i))}

\* The marker row of a set that is closest to the rows below them
Closest(A) == CHOOSE i \in A : \A j \in A : j <= i

\* The facility the row above row i carries
AboveLabel(data, i) ==
    IF i > 0 THEN NearRowHospital(RowAt(data, i - 1), 1) ELSE <<>>

\* The table with row i emptied
Blanked(data, i) == [data EXCEPT ![i + 1] = <<>>]

\* The result does not come from row i: it is the same with the row emptied
NotReadFrom(i) ==
    find_hospital_near_name(Blanked(fetched, i), at_row, <<>>) = near

\* C7 as stated: with several marker rows in rows max(0, r-50)..r the
\* facility is never read from the row above a marker row farther than the
\* closest one.
C7_AsStated ==
    pc = "neared" =>
        \A far \in AnchorsAbove(fetched, at_row) :
            far > 0 /\ far # Closest(AnchorsAbove(fetched, at_row))
                => NotReadFrom(far - 1)

\* C7: when the row above the closest marker row carries a facility, the
\* result is that facility and is not read from the row above a farther
\* marker row; a row more than 10 rows above the record is never read
\* for a farther marker row, so that with marker rows at distances 3 and
\* 12 the row above the one at distance 12 is not read.
C7_Closest ==
    pc = "neared" =>
        \A c \in AnchorsAbove(fetched, at_row) :
            c = Closest(AnchorsAbove(fetched, at_row)) =>
                /\ AboveLabel(fetched, c) # <<>>
                      => near = AboveLabel(fetched, c)
                /\ \A far \in AnchorsAbove(fetched, at_row) \ {c} :
                      /\ far > 0
                      /\ \/ AboveLabel(fetched, c) # <<>>
                         \/ at_row - (far - 1) > BackupBefore
                      => NotReadFrom(far - 1)

C7_Witness ==
    /\ pc = "neared"
    /\ fetched = NearTable(3, Goldskin, 12, Newb, <<>>)
    /\ near = Goldskin

\* The table has two marker rows under rows with different facilities
SeveralLabels(data) ==
    \E i \in 1..(Len(data) - 1) :
        \E j \in 1..(Len(data) - 1) :
            /\ IsAnchorRow(RowAt(data, i)) /\ IsAnchorRow(RowAt(data, j))
            /\ AboveLabel(data, i) # <<>> /\ AboveLabel(data, j) # <<>>
            /\ AboveLabel(data, i) # AboveLabel(data, j)

\* C8: in a table with two or more marker rows under rows with different
\* facilities, every record carries the facility of the row above the
\* marker row closest at or above the record's row.
C8_ClosestLabel ==
    Analysed /\ SeveralLabels(fetched) =>
        \A k \in DOMAIN events :
            \A c \in AnchorsAbove(fetched, events[k].row_index - 1) :
                /\ c = Closest(AnchorsAbove(fetched, events[k].row_index - 1))
                /\ AboveLabel(fetched, c) # <<>>
                => events[k].hospital = AboveLabel(fetched, c)

\* The table of C8's case: the record under the second marker row carries
\* the facility of the first
C8_Witness ==
    /\ pc = "done"
    /\ fetched = Block(Newb, <<Hong, DateTime1, Phone1>>)
                    \o Block(Goldskin, <<Kim, DateOnly2, <<>>>>)
    /\ Len(events) = 2
    /\ events[2].row_index = 8
    /\ events[2].hospital = Newb

\* What the row resolver returns for the row of a record
PerRow(e) == find_hospital_near_name(fetched, e.row_index - 1, e.name)

\* The first of three texts that is not empty, the last when none is
FirstNonEmpty(a, b, c) == IF a # <<>> THEN a ELSE IF b # <<>> THEN b ELSE c

\* C9 as stated: the facility of a record is the first non-empty of the
\* table-wide facility, the row resolver's result and the sheet label, and
\* it is the sheet label exactly when the first two are empty.
C9_AsStated ==
    Analysed =>
        \A k \in DOMAIN events :
            /\ events[k].hospital
                  = FirstNonEmpty(sheet_hospital, PerRow(events[k]), sheet.name)
            /\ events[k].hospital = sheet.name
                  <=> (sheet_hospital = <<>> /\ PerRow(events[k]) = <<>>)

\* C9: the facility of a record is the first non-empty of the table-wide
\* facility, the row resolver's result and the sheet label: the table-wide
\* facility for all records when it is not empty, the sheet label when
\* the first two are empty.
C9_FirstNonEmpty ==
    Analysed =>
        \A k \in DOMAIN events :
            /\ events[k].hospital
                  = FirstNonEmpty(sheet_hospital, PerRow(events[k]), sheet.name)
            /\ sheet_hospital # <<>> => events[k].hospital = sheet_hospital
            /\ (sheet_hospital = <<>> /\ PerRow(events[k]) = <<>>)
                  => events[k].hospital = sheet.name

C9_Witness ==
    /\ pc = "done"
    /\ sheet_hospital = <<>>
    /\ \E k \in DOMAIN events :
          PerRow(events[k]) = <<>> /\ events[k].hospital = sheet.name
    /\ \E k \in DOMAIN events :
          PerRow(events[k]) # <<>> /\ events[k].hospital = PerRow(events[k])

\* The year the pivot 50 gives the two digits
PivotAt50(yy) ==
    IF ToInt(yy) < 50 THEN <<"2", "0">> \o yy ELSE <<"1", "9">> \o yy

\* The text is a date written with the two-digit year yy
WrittenWith(yy) ==
    \E sep \in Seps, m \in Months, d \in Days, tail \in Tails :
        date_text = BuildDate(yy, sep, m, d, tail)

YearOf(result) == SubSeq(result.date, 1, 4)

\* C10: for a date text with a two-digit year yy, with any separator and
\* with or without a time, a date that parse_date_time returns has the
\* year 2000+yy when yy < 50 and 1900+yy when yy >= 50.
C10_Pivot ==
    pc = "parsed" =>
        \A yy \in Years2 :
            WrittenWith(yy) =>
                /\ parsed.date # None => YearOf(parsed) = PivotAt50(yy)
                /\ db_parsed.date # None => YearOf(db_parsed) = PivotAt50(yy)

\* The text of C10's case: 50-08-05 is taken by the format %y-%m-%d of
\* main.py as 2050, by the pattern of database.py as 1950
C10_Witness ==
    /\ pc = "parsed"
    /\ date_text = <<"5", "0", "-", "0", "8", "-", "0", "5">>
    /\ parsed.date = <<"2", "0", "5", "0", "-", "0", "8", "-", "0", "5">>
    /\ db_parsed.date = <<"1", "9", "5", "0", "-", "0", "8", "-", "0", "5">>

\* The date n days after 1899-12-30, at the default time
DaysAfter1899(n) ==
    [date |-> StrfDate(CivilFromDays(EpochDays - 2 + n).year,
                       CivilFromDays(EpochDays - 2 + n).month,
                       CivilFromDays(EpochDays - 2 + n).day),
     time |-> <<"0", "9", ":", "0", "0">>]

\* C11: for a text of digits only with a value n over 40000 the parser of
\* the pipeline (main.py), and that of the import (database.py), return
\* the date n days after 1899-12-30 and the time 09:00.
C11_SerialDate ==
    (pc = "parsed" /\ IsDigitText(date_text) /\ ToInt(date_text) > 40000)
        => /\ parsed = DaysAfter1899(ToInt(date_text))
           /\ db_parsed = DaysAfter1899(ToInt(date_text))

\* The text 45123: main.py has no result, database.py has 2023-07-16
C11_Witness ==
    /\ pc = "parsed"
    /\ date_text = <<"4", "5", "1", "2", "3">>
    /\ parsed = NoDate
    /\ db_parsed = DaysAfter1899(45123)
    /\ db_parsed.date = <<"2", "0", "2", "3", "-", "0", "7", "-", "1", "6">>

\* C12: the refresh of the table [{A: 이름}, {A: 홍길동, B: 010-1234-5678,
\* C: 25-08-05(화) 10:00}] leaves exactly one record, with the name 홍길동,
\* the phone 010-1234-5678, the date 2025-08-05 and the time 10:00.
C12_Scenario ==
    (pc = "done" /\ fetched = ScenarioTable)
        => /\ Len(events) = 1
           /\ events[1].name = Hong
           /\ events[1].phone = Phone1
           /\ events[1].date = <<"2", "0", "2", "5", "-", "0", "8", "-", "0", "5">>
           /\ events[1].time = <<"1", "0", ":", "0", "0">>

\* The table of C12 refreshed: the name is bound to A, the date to no
\* column, and there is no record
C12_Witness ==
    /\ pc = "done"
    /\ fetched = ScenarioTable
    /\ mapping = [name |-> 1, phone |-> NoKey, date |-> NoKey, procedure |-> NoKey]
    /\ events = <<>>

\* A hyphenated phone pattern, three digits, n digits and four, at k
ShapeAt(t, k, n) ==
    /\ k + 8 + n <= Len(t)
    /\ t[k + 3] = "-" /\ t[k + 4 + n] = "-"
    /\ \A j \in (k..(k + 2)) \cup ((k + 4)..(k + 3 + n))
                \cup ((k + 5 + n)..(k + 8 + n)) : t[j] \in Digits

\* The phone patterns a cell holds
ShapesIn(cell) ==
    IF cell = None THEN {}
    ELSE {SubSeq(cell, k, k + 8 + n) :
            k \in {j \in 1..Len(cell) : ShapeAt(cell, j, 3)}, n \in {3}}
         \cup {SubSeq(cell, k, k + 8 + n) :
            k \in {j \in 1..Len(cell) : ShapeAt(cell, j, 4)}, n \in {4}}

\* The first cell of the row, in row order, that holds a phone pattern
FirstPhoneCell(row) ==
    row[CHOOSE c \in DOMAIN row :
            /\ ShapesIn(row[c]) # {}
            /\ \A d \in 1..(c - 1) : ShapesIn(row[d]) = {}]

\* C13: for every record whose row has no phone pattern under the Phone
\* column (the role unbound, the cell empty, absent or without a pattern)
\* and a phone pattern in some cell, the phone of the record is a pattern
\* of the first such cell in row order, and not empty.
C13_PhoneFallback ==
    Analysed =>
        \A k \in DOMAIN events :
            /\ ShapesIn(CellUnder(events[k].original_data, mapping.phone)) = {}
            /\ \E c \in DOMAIN events[k].original_data :
                  ShapesIn(events[k].original_data[c]) # {}
            => /\ events[k].phone # <<>>
               /\ events[k].phone \in ShapesIn(FirstPhoneCell(events[k].original_data))

\* A record with 010-9999-8888 from 담당: 010-9999-8888 beside an empty
\* phone cell, and one with the number of the first of two cells
C13_Witness ==
    /\ pc = "done"
    /\ mapping.phone = 3
    /\ \E k \in DOMAIN events :
          /\ events[k].original_data = <<Hong, DateTime1, <<>>, Contact>>
          /\ events[k].phone = SubSeq(Contact, 5, 17)
    /\ \E k \in DOMAIN events :
          /\ events[k].original_data = <<Kim, DateOnly2, Memo, Contact2, Contact>>
          /\ events[k].phone = Phone1

\* The digits that stand in the text from position k on without a break
RECURSIVE DigitRunFrom(_, _)
DigitRunFrom(t, k) ==
    IF k <= Len(t) /\ t[k] \in Digits THEN <<t[k]>> \o DigitRunFrom(t, k + 1)
    ELSE <<>>

\* The contiguous runs of digits of a text, each as long as it goes
DigitRuns(t) ==
    IF t = None THEN {}
    ELSE {DigitRunFrom(t, k) :
            k \in {j \in 1..Len(t) :
                     t[j] \in Digits /\ (j = 1 \/ t[j - 1] \notin Digits)}}

\* The digits in groups of three, n and four
Hyphenated(run, n) ==
    SubSeq(run, 1, 3) \o <<"-">> \o SubSeq(run, 4, 3 + n) \o <<"-">>
        \o SubSeq(run, 4 + n, Len(run))

\* A run the canonicalization takes: 11 digits from 010 on, or 10 digits
Qualifies(run) ==
    \/ Len(run) = 11 /\ SubSeq(run, 1, 3) = <<"0", "1", "0">>
    \/ Len(run) = 10

\* C14: for a text without a hyphenated phone pattern and with a run of
\* exactly 11 digits from 010 on, both extract_phone_number return the
\* run as DDD-DDDD-DDDD; with a run of exactly 10 digits, DDD-DDD-DDDD.
C14_DigitRun ==
    (pc = "phoned" /\ ShapesIn(phone_text) = {}) =>
        \A run \in DigitRuns(phone_text) :
            Qualifies(run) =>
                /\ phone_main = Hyphenated(run, Len(run) - 7)
                /\ phone_db = Hyphenated(run, Len(run) - 7)

\* The text 01012345678: main.py returns '', database.py 010-1234-5678
C14_Witness ==
    /\ pc = "phoned"
    /\ phone_text = Phone2
    /\ phone_main = <<>>
    /\ phone_db = Phone1

\* C15: for a text without a phone pattern (no hyphenated pattern, no run
\* of 11 digits from 010 on or of 10 digits), the empty and the absent
\* text included, both extract_phone_number return the empty text.
C15_NoMatchEmpty ==
    (/\ pc = "phoned"
     /\ ShapesIn(phone_text) = {}
     /\ \A run \in DigitRuns(phone_text) : ~Qualifies(run))
        => phone_main = <<>> /\ phone_db = <<>>

\* The text tel 12345 memo: main.py returns '', database.py the text
C15_Witness ==
    /\ pc = "phoned"
    /\ phone_text = <<"t", "e", "l", " ", "1", "2", "3", "4", "5", " ", "m", "e", "m", "o">>
    /\ phone_main = <<>>
    /\ phone_db = phone_text

\* C16: the classifier returns the all-absent mapping for the empty
\* table; the refresh of the empty table, and of a table in which no
\* column is bound to Name or none to Date, ends with no record.
C16_SoftFailure ==
    /\ find_column_mappings(<<>>) = NoMappings
    /\ (pc = "done" /\ fetched = <<>>) => (mapping = NoMappings /\ events = <<>>)
    /\ (Refreshed /\ (mapping.name = NoKey \/ mapping.date = NoKey))
          => events = <<>>

\* A table with dates in every row whose Name column is not bound, and
\* no record of it
C16_Witness ==
    /\ pc = "done"
    /\ fetched = << <<HName, HDate>> >> \o PlaceholderRows
    /\ mapping.name = NoKey
    /\ mapping.date = 2
    /\ events = <<>>

\* The anchor strategy matches: the closest marker row of the window is
\* not row 0 and the row above it carries a facility
AnchorMatches(data, r) ==
    /\ AnchorsAbove(data, r) # {}
    /\ AboveLabel(data, Closest(AnchorsAbove(data, r))) # <<>>

\* The backup strategy matches: a cell of rows max(0, r-10)..r+2 of the
\* table carries a facility by the backup rules
BackupMatches(data, r) ==
    \E i \in Max(0, r - BackupBefore)..(r + BackupAfter - 1) :
        /\ i < Len(data)
        /\ \E key \in 1..Len(RowAt(data, i)) :
              BackupCellHospital(RowAt(data, i)[key]) # <<>>

\* C17: for every table, with empty rows and rows of different widths,
\* and every row r of it, the first and the last included, the resolver
\* returns a text, and the empty text when neither strategy matches.
C17_NeverRaises ==
    pc = "neared" =>
        /\ near # None
        /\ near \in Seq(STRING)
        /\ (~AnchorMatches(fetched, at_row) /\ ~BackupMatches(fetched, at_row))
              => near = <<>>

\* The marker line is in row 0 and the record in it, over an empty row
\* and a row whose facility only the anchor strategy would accept
C17_Witness ==
    /\ pc = "neared"
    /\ fetched = << <<Sentinel>>, <<>>, <<Goldskin>> >>
    /\ at_row = 0
    /\ near = <<>>

\* The rows the loop of refresh_events_for_sheet adds from row row_idx on
RECURSIVE Extraction(_, _, _, _, _, _)
Extraction(evs, data, row_idx, sh, hospital0, column_mappings) ==
    IF row_idx >= Len(data) THEN evs
    ELSE Extraction(RowStep(evs, data, row_idx, sh, hospital0,
                            extract_meaningful_data(RowAt(data, row_idx),
                                                    column_mappings)),
                    data, row_idx + 1, sh, hospital0, column_mappings)

\* The complete set of events the table gives
NewEvents ==
    IF fetched = <<>> THEN <<>>
    ELSE Extraction(<<>>, fetched, 0, sheet,
                    extract_hospital_from_data(sheet.name, fetched),
                    find_column_mappings(fetched))

\* C18: what a reader gets while the sheet is being refreshed is the
\* complete set of events stored before the refresh or the complete set
\* the table gives, never the cleared or a partly inserted set.
C18_ReaderIsolation ==
    [][(pc \in {"fetch", "rows"} /\ seen' # seen)
          => seen'.rows \in get_all_events(prev_events)
                          \cup get_all_events(NewEvents)]_vars

\* A reader has got no event of a sheet whose events were stored and
\* are being inserted again
C18_Witness ==
    /\ pc = "rows"
    /\ prev_events # <<>>
    /\ seen = [read |-> TRUE, rows |-> <<>>]

\* C19: after a refresh that failed or was abandoned the stored events
\* of the sheet are the set stored before the refresh or the complete
\* set the table gives.
C19_AllOrNothing ==
    pc \in {"failed", "killed"} =>
        (events = prev_events \/ events = NewEvents)

\* The second refresh of a sheet with events failed in the fetch and
\* left none
C19_Witness ==
    /\ pc = "failed"
    /\ prev_events # <<>>
    /\ events = <<>>
    /\ at_row = Len(fetched)

\* C20: no step of the refresh or of the import changes the table it
\* reads, and the raw row stored with an event is equal to the row of
\* the table the event was made from.
C20_Frame ==
    /\ [](\A k \in DOMAIN events :
             events[k].original_data = RowAt(fetched, events[k].row_index - 1))
    /\ [][fetched' = fetched]_vars

\* An event of a row with an empty cell, whose raw row has the cell as
\* the table has it
C20_Witness ==
    /\ pc = "done"
    /\ \E k \in DOMAIN events :
          /\ \E key \in DOMAIN events[k].original_data :
                events[k].original_data[key] = <<>>
          /\ events[k].original_data = RowAt(fetched, events[k].row_index - 1)

\* The cells of the first ScanRows rows, as <<row, key>>, that enter the
\* branch of a role whether or not the Date role is bound, over a column
\* that passes check_column_has_data
AcceptedHits(data, role) ==
    {h \in (0..(Min(ScanRows, Len(data)) - 1)) \X (1..RowWidth) :
        /\ h[2] <= Len(RowAt(data, h[1]))
        /\ CellRole(RowAt(data, h[1])[h[2]], TRUE) = role
        /\ CellRole(RowAt(data, h[1])[h[2]], FALSE) = role
        /\ check_column_has_data(data, h[2], h[1] + 1)}

\* The hit that comes first in scan order
FirstHit(H) ==
    CHOOSE h \in H :
        \A g \in H : h[1] < g[1] \/ (h[1] = g[1] /\ h[2] <= g[2])

\* Hits on two different column keys
TwoKeys(H) == \E g \in H : \E h \in H : g[2] # h[2]

\* C21: when hits for Name, Phone or Procedure on two different columns
\* both pass the density check, the role is bound to the column of the
\* hit that comes first in scan order.
C21_FirstHitWins ==
    Refreshed =>
        \A role \in {"name", "phone", "procedure"} :
            TwoKeys(AcceptedHits(fetched, role))
                => mapping[role] = FirstHit(AcceptedHits(fetched, role))[2]

\* Both name headers stand over names and the Name role is bound to the
\* column of the later one
C21_Witness ==
    /\ pc = "done"
    /\ fetched \in TwoHitTables
    /\ check_column_has_data(fetched, 1, 1)
    /\ check_column_has_data(fetched, 3, 1)
    /\ mapping.name = 3

\* The cells of the first ScanRows rows that enter the branch of a role
RoleHits(data, role) ==
    {h \in (0..(Min(ScanRows, Len(data)) - 1)) \X (1..RowWidth) :
        /\ h[2] <= Len(RowAt(data, h[1]))
        /\ CellRole(RowAt(data, h[1])[h[2]], TRUE) = role
        /\ CellRole(RowAt(data, h[1])[h[2]], FALSE) = role}

\* The qualifying rows beneath a hit: those of the DensityWindow rows
\* after it that carry a value other than a placeholder in its column
QualifyingRows(data, h) ==
    Cardinality({i \in (h[1] + 1)..(Min(h[1] + 1 + DensityWindow, Len(data)) - 1) :
                    CountsAsData(RowAt(data, i), h[2])})

StrongHits(data, role) ==
    {h \in RoleHits(data, role) : QualifyingRows(data, h) >= DensityHits}

WeakHits(data, role) ==
    {h \in RoleHits(data, role) :
        QualifyingRows(data, h) >= 1 /\ QualifyingRows(data, h) < DensityHits}

\* C22: a role with a hit over at least 3 qualifying rows is bound to the
\* column of such a hit, whichever hit is scanned first; a column with 1
\* or 2 qualifying rows is bound only when the role has no such hit.
C22_StrongOverWeak ==
    Refreshed =>
        \A role \in {"name", "phone", "procedure"} :
            StrongHits(fetched, role) # {}
                => \E h \in StrongHits(fetched, role) : mapping[role] = h[2]

\* The first name header stands over 3 names, the second over 1 or 2,
\* and the Name role is bound to the second
C22_Witness ==
    /\ pc = "done"
    /\ fetched \in TwoHitTables
    /\ <<0, 1>> \in StrongHits(fetched, "name")
    /\ <<0, 3>> \in WeakHits(fetched, "name")
    /\ mapping.name = 3

\* The cell carries a synonym of a known facility
IsSynonymCell(cell) ==
    /\ Truthy(cell)
    /\ ContainsAny(Lower(Strip(cell)), NearStellaPatterns \cup NearGeneoPatterns)

\* The cell carries a general facility keyword and no synonym
IsKeywordCell(cell) ==
    /\ Truthy(cell)
    /\ ~IsSynonymCell(cell)
    /\ ContainsAny(Lower(Strip(cell)), HospitalKeywords)

\* The row above the closest marker row of the window; empty without one
AboveClosest(data, r) ==
    IF AnchorsAbove(data, r) # {} /\ Closest(AnchorsAbove(data, r)) > 0
    THEN RowAt(data, Closest(AnchorsAbove(data, r)) - 1)
    ELSE <<>>

\* C23: when the row above the closest marker row holds a synonym cell,
\* the resolver returns a canonical name, whatever the order of the
\* cells; without a synonym cell and with a general keyword cell it
\* returns the text of a general keyword cell.
C23_Precedence ==
    pc = "neared" =>
        LET above == AboveClosest(fetched, at_row)
        IN  /\ (\E k \in DOMAIN above : IsSynonymCell(above[k]))
                  => near \in {Newb, Cellnine}
            /\ ((\E k \in DOMAIN above : IsKeywordCell(above[k]))
                   /\ ~(\E k \in DOMAIN above : IsSynonymCell(above[k])))
                  => \E k \in DOMAIN above :
                        IsKeywordCell(above[k]) /\ near = Strip(above[k])

\* A general keyword cell before a synonym cell: the keyword cell is
\* returned
C23_Witness ==
    /\ pc = "neared"
    /\ fetched = << <<Goldskin, Stella>>, <<Sentinel>>, <<Hong, DateTime1>> >>
    /\ near = Goldskin

\* The rows of max(0, r-10)..last, clipped to the table, with a cell that
\* passes the backup rules
BackupRows(data, r, last) ==
    {i \in Max(0, r - BackupBefore)..Min(last, Len(data) - 1) :
        \E key \in 1..Len(RowAt(data, i)) :
            BackupCellHospital(RowAt(data, i)[key]) # <<>>}

\* What the first cell of a row that passes the backup rules gives
FirstBackupCell(row) ==
    BackupCellHospital(
        row[CHOOSE key \in 1..Len(row) :
                /\ BackupCellHospital(row[key]) # <<>>
                /\ \A j \in 1..(key - 1) : BackupCellHospital(row[j]) = <<>>])

\* The result of a backup strategy over rows max(0, r-10)..last
BackupUpTo(data, r, last) ==
    IF BackupRows(data, r, last) = {} THEN <<>>
    ELSE FirstBackupCell(
             RowAt(data, CHOOSE i \in BackupRows(data, r, last) :
                             \A j \in BackupRows(data, r, last) : i <= j))

\* C24: the backup strategy runs only when the anchor strategy returned
\* nothing, and it then returns the first match, rows ascending and cells
\* in row order, of rows max(0, r-10)..r+3, clipped to the table.
C24_BackupRange ==
    pc = "neared" =>
        IF AnchorMatches(fetched, at_row)
        THEN near = AboveLabel(fetched, Closest(AnchorsAbove(fetched, at_row)))
        ELSE near = BackupUpTo(fetched, at_row, at_row + BackupAfter)

\* The only facility line is in row r+3 and the resolver returns nothing
C24_Witness ==
    /\ pc = "neared"
    /\ fetched = BackupTable(0, 3)
    /\ at_row = 0
    /\ near = <<>>

\* The tails with a weekday in parentheses before the time 10:00
WeekdayTails ==
    {tail \in Tails :
        Len(tail) > Len(TimeTail) /\ tail[1] = "("
            /\ SubSeq(tail, Len(tail) - Len(TimeTail) + 1, Len(tail)) = TimeTail}

\* The text is a date, a weekday in parentheses and the time 10:00
WeekdayTimed(t) ==
    \E y \in Years2 \cup Years4, sep \in Seps, m \in Months, d \in Days,
       tail \in WeekdayTails :
        t = BuildDate(y, sep, m, d, tail)

\* C25: for a text made of a date, a weekday in parentheses and a time
\* HH:MM, a result of the parser of the extraction pipeline carries the
\* time written in the text.
C25_WeekdayTime ==
    (pc = "parsed" /\ WeekdayTimed(date_text) /\ parsed.date # None)
        => parsed.time = SubSeq(TimeTail, 2, Len(TimeTail))

\* 25-08-05(화) 10:00 is parsed to 2025-08-05 with the default time
C25_Witness ==
    /\ pc = "parsed"
    /\ date_text = WeekdayDate
    /\ parsed = [date |-> <<"2", "0", "2", "5", "-", "0", "8", "-", "0", "5">>,
                 time |-> DefaultTime]

\* HH:MM with two digits each, 00 <= HH <= 23, 00 <= MM <= 59
ValidTime(t) ==
    /\ Len(t) = 5
    /\ t[3] = ":"
    /\ \A k \in {1, 2, 4, 5} : t[k] \in Digits
    /\ ToInt(SubSeq(t, 1, 2)) <= 23
    /\ ToInt(SubSeq(t, 4, 5)) <= 59

\* C29: a result of parse_date_time, of main.py or of database.py,
\* carries a time HH:MM with 00 <= HH <= 23 and 00 <= MM <= 59.
C29_TimeInRange ==
    pc = "parsed" =>
        /\ parsed.date # None => ValidTime(parsed.time)
        /\ db_parsed.date # None => ValidTime(db_parsed.time)

\* 25-08-05 25:99 is parsed to 2025-08-05 with the time 25:99
C29_Witness ==
    /\ pc = "parsed"
    /\ date_text = BuildDate(<<"2", "5">>, "-", <<"0", "8">>, <<"0", "5">>,
                             <<" ", "2", "5", ":", "9", "9">>)
    /\ parsed.date # None
    /\ parsed.time = <<"2", "5", ":", "9", "9">>

\* The text is YYYY-MM-DD with the four-digit year yyyy, alone or
\* followed by the time 10:00
WrittenWithYear(yyyy) ==
    \E m \in Months, d \in Days, tail \in {<<>>, TimeTail} :
        date_text = BuildDate(yyyy, "-", m, d, tail)

\* C30: for a text YYYY-MM-DD with a four-digit year, with or without
\* HH:MM, a date that parse_date_time returns, in main.py or in
\* database.py, has the year YYYY.
C30_FourDigitYear ==
    pc = "parsed" =>
        \A yyyy \in Years4 :
            WrittenWithYear(yyyy) =>
                /\ parsed.date # None => YearOf(parsed) = yyyy
                /\ db_parsed.date # None => YearOf(db_parsed) = yyyy

\* 2050-08-05 is parsed by database.py to 1950-08-05
C30_Witness ==
    /\ pc = "parsed"
    /\ date_text = BuildDate(<<"2", "0", "5", "0">>, "-", <<"0", "8">>,
                             <<"0", "5">>, <<>>)
    /\ parsed.date = date_text
    /\ db_parsed.date = <<"1", "9", "5", "0", "-", "0", "8", "-", "0", "5">>

----------------------------------------------------------------------------
(* Workers on one database *)

\* The stored events of sheet sheet_id
EventsOfSheet(sheet_id) == SelectSeq(events, LAMBDA e : e.sheet_id = sheet_id)

\* One extraction of the table of sheet sheet_id
OneExtraction(sheet_id) ==
    Extraction(<<>>, fetched, 0, ApiSheet(sheet_id),
               extract_hospital_from_data(ApiSheetName, fetched),
               find_column_mappings(fetched))

AllFinished == \A w \in Workers : workers[w].pc = "idle"

\* C26: once every refresh of a sheet has finished, under any interleaving
\* of the refreshes of two or more workers, the stored events of the sheet
\* are the records of one extraction of its table, none of them twice.
C26_OneExtraction ==
    AllFinished =>
        \A sheet_id \in sheets : EventsOfSheet(sheet_id) = OneExtraction(sheet_id)

\* Two workers have finished GET /api/events and the record of the one
\* row of the sheet is stored twice
C26_Witness ==
    /\ AllFinished
    /\ \A w \in Workers : workers[w].op = "events" /\ workers[w].reply = "ok"
    /\ \E sheet_id \in sheets :
          /\ Len(OneExtraction(sheet_id)) = 1
          /\ EventsOfSheet(sheet_id) =
                OneExtraction(sheet_id) \o OneExtraction(sheet_id)

\* C27: in every state, under any interleaving of add_sheet, delete_sheet
\* and the refreshes, the sheet_id of each stored event is the id of a
\* stored sheet: after delete_sheet has returned True no event of the
\* sheet exists and a refresh that was running inserts none.
C27_EventsHaveSheet ==
    \A k \in DOMAIN events : events[k].sheet_id \in sheets

\* delete_sheet returned True for a sheet and every handler has finished;
\* an event of the sheet is stored
C27_Witness ==
    /\ AllFinished
    /\ \E w \in Workers : workers[w].op = "delete" /\ workers[w].reply = "true"
    /\ \E k \in DOMAIN events : events[k].sheet_id \notin sheets

\* C27, the rest of it: delete_sheet for an id not stored returns False and
\* changes neither the sheets nor the events
C27_UnknownId ==
    [][\A w \in Workers :
          (workers'[w] # workers[w] /\ workers'[w].op = "delete"
             /\ workers'[w].pc = "idle" /\ workers[w].pc = "idle"
             /\ workers'[w].creds = workers[w].creds
             /\ sheets' = sheets)
          => (workers'[w].reply = "false" /\ events' = events)]_vars

\* C28: a handler of a worker whose user_credentials is None before and
\* after it changes the stored sheets and events only when it is
\* delete_sheet; add_sheet answers 401 and get_events an empty list.
C28_NoCredentials ==
    [][\A w \in Workers :
          (~workers[w].creds /\ ~workers'[w].creds /\ workers'[w] # workers[w])
          => /\ (sheets' # sheets \/ events' # events \/ last_id' # last_id)
                   => workers'[w].op = "delete"
             /\ workers'[w].op = "add" => workers'[w].reply = "401"
             /\ workers'[w].op = "events"
                   => (workers'[w].reply = "empty" /\ workers'[w].result = <<>>)]_vars

\* Sheets and events are stored; without credentials one worker was
\* refused a sheet and the other was given no events
C28_Witness ==
    /\ sheets # {}
    /\ events # <<>>
    /\ \A w \in Workers : ~workers[w].creds
    /\ \E w \in Workers : workers[w].op = "add" /\ workers[w].reply = "401"
    /\ \E w \in Workers :
          /\ workers[w].op = "events"
          /\ workers[w].reply = "empty"
          /\ workers[w].result = <<>>

============================================================================
